---- MODULE Spec2Model ----
(***************************************************************************)
(* A model of the EMIS-to-ACG mapping-driven transformation engine:        *)
(* processing.generate_acg_files, its three generators, the column-level   *)
(* transformations of config.py, and _apply_transformation.                *)
(*                                                                         *)
(* Text.  A cell of a table is a Python str or a missing value (NaN).  A   *)
(* str is modelled as a sequence of one-character strings, so that         *)
(* str.upper, str.strip and the comparison with '' are computed and not    *)
(* assumed; NaN is a one-element sequence holding a marker that is no      *)
(* character.  Names (columns, dataset keys, labels, transformation keys)  *)
(* are TLA+ strings; a name that pandas.read_csv read from a blank cell is *)
(* the marker NaNName.                                                     *)
(*                                                                         *)
(* DataFrames.  A frame is a record                                        *)
(*   [index, range, columns, data, origin]                                 *)
(* with data[j] the values of column j (one per row), index the pandas     *)
(* row labels (integers when range, a RangeIndex; cell values after        *)
(* set_index), and origin a history field naming, for each row, the input  *)
(* row it was made from (pandas keeps this in the index until reset_index  *)
(* or concat(ignore_index=True) discards it).                              *)
(***************************************************************************)
EXTENDS Integers, Sequences, FiniteSets, TLC

\* ------------------------------------------------------------------ bounds
\* Most rows in a caller-supplied table.
MaxRows == 2
\* Most mapping rules of the target file a specification varies.
MaxRules == 2
\* Most values in the series handed to a transformation on its own.
MaxLen == 2

\* -------------------------------------------------------------------- text
NaN == <<"NaN">>
NaNName == "<NaN>"
None == [kind |-> "None"]
EmptyStr == <<>>

\* config.MERGE_KEY
MERGE_KEY == "PatientID"

isna(v) == v = NaN

\* str(v) / Series.astype(str) of one value: a missing value reads 'nan'.
AsStr(v) == IF isna(v) THEN <<"n", "a", "n">> ELSE v

\* str.upper, character by character, on the model's alphabet.
UpperChar(c) ==
  CASE c = "m" -> "M"
    [] c = "f" -> "F"
    [] c = "n" -> "N"
    [] c = "a" -> "A"
    [] c = "x" -> "X"
    [] c = "s" -> "S"
    [] OTHER -> c

Upper(s) == [i \in 1..Len(s) |-> UpperChar(s[i])]

IsSpace(c) == c \in {" ", "\t"}

\* str.strip(): drop leading and trailing whitespace.
Strip(s) ==
  LET keep == {i \in 1..Len(s) : ~IsSpace(s[i])}
  IN  IF keep = {} THEN EmptyStr
      ELSE LET lo == CHOOSE i \in keep : \A j \in keep : i <= j
               hi == CHOOSE i \in keep : \A j \in keep : j <= i
           IN  SubSeq(s, lo, hi)

\* str(name).strip() on the names of the model: a column name written with
\* surrounding blanks in mapping.csv loses them; a blank cell (NaN) reads 'nan'.
StripName(n) ==
  CASE n = " " -> ""
    [] n = " Code " -> "Code"
    [] n = " DrugCode " -> "DrugCode"
    [] n = NaNName -> "nan"
    [] OTHER -> n

\* `pd.isna(input_col) or str(input_col).strip() == ''`
IsBlankName(n) == n = NaNName \/ StripName(n) = ""

\* str(i) of a RangeIndex label.
DigitStr(i) ==
  CASE i = 0 -> <<"0">> [] i = 1 -> <<"1">> [] i = 2 -> <<"2">>
    [] i = 3 -> <<"3">> [] i = 4 -> <<"4">> [] i = 5 -> <<"5">>
    [] i = 6 -> <<"6">> [] i = 7 -> <<"7">> [] i = 8 -> <<"8">>
    [] OTHER -> <<"9">>

\* The text of one value of a transformation's input: astype(str) of a cell
\* value, or of a row label, which is an integer under a RangeIndex and a
\* cell value after set_index.
TextOf(input, i) ==
  IF input.kind = "RangeIndex" THEN DigitStr(input.values[i]) ELSE AsStr(input.values[i])

\* ------------------------------------------------------------- sequences
\* The members of P, a set of positions, in increasing order.
PosSeq(P) ==
  [k \in 1..Cardinality(P) |-> CHOOSE p \in P : Cardinality({q \in P : q < p}) = k - 1]

Pick(s, pos) == [k \in 1..Len(pos) |-> s[pos[k]]]

Range(s) == {s[i] : i \in 1..Len(s)}

\* Series.unique(): the distinct values in order of first appearance.
Unique(s) ==
  Pick(s, PosSeq({i \in 1..Len(s) : \A j \in 1..(i - 1) : s[j] # s[i]}))

\* list.index(x), 1-based; 0 when x is not in the list.
IndexOf(s, x) ==
  IF x \in Range(s) THEN CHOOSE i \in 1..Len(s) : s[i] = x /\ \A j \in 1..(i - 1) : s[j] # x
  ELSE 0

\* list.pop(list.index(x)): the list without the first x.
ListRemove(s, x) ==
  LET i == IndexOf(s, x)
  IN  IF i = 0 THEN s ELSE SubSeq(s, 1, i - 1) \o SubSeq(s, i + 1, Len(s))

\* list.insert(at, x) with Python's 0-based position, clipped to the length.
ListInsert(s, at, x) ==
  LET k == IF at > Len(s) THEN Len(s) ELSE at
  IN  SubSeq(s, 1, k) \o <<x>> \o SubSeq(s, k + 1, Len(s))

\* `if x in l: l.insert(at, l.pop(l.index(x)))`
MoveTo(s, x, at) == IF x \in Range(s) THEN ListInsert(ListRemove(s, x), at, x) ELSE s

\* All sequences over S of length at most n.
SeqUpTo(S, n) == UNION {[1..k -> S] : k \in 0..n}

Const(n, v) == [i \in 1..n |-> v]

\* ------------------------------------------------------- transformations
\* What a transformation is handed: a column of a frame (a pandas Series) or
\* the frame's row labels (a pandas Index).
SeriesOf(vals) == [kind |-> "Series", values |-> vals]
RowLabels(df) == [kind |-> IF df.range THEN "RangeIndex" ELSE "Index", values |-> df.index]

Returned(kind, vals) == [raised |-> FALSE, kind |-> kind, values |-> vals]
\* An Index has no .index and no .apply: the call raises AttributeError.
Raised == [raised |-> TRUE, kind |-> "AttributeError", values |-> <<>>]

sex_mapping(u) ==
  CASE u = <<"M">> -> <<"1">>
    [] u = <<"F">> -> <<"2">>
    [] u = <<"1">> -> <<"1">>
    [] u = <<"2">> -> <<"2">>
    [] OTHER -> NaN

fillna(v, d) == IF isna(v) THEN d ELSE v

\* transform_sex with the str.upper() step left out: the mapping is looked up
\* with the code as written, so lower-case codes fall through to '9'.
transform_sex_case_sensitive(input) ==
  Returned(input.kind,
           [i \in 1..Len(input.values) |-> fillna(sex_mapping(TextOf(input, i)), <<"9">>)])

\* config.transform_sex: astype(str), str.upper, map(mapping), fillna('9').
\* Series and Index both offer all four.
transform_sex(input) ==
  Returned(input.kind,
           [i \in 1..Len(input.values) |->
              fillna(sex_mapping(Upper(TextOf(input, i))), <<"9">>)])

IsDigit(c) == c \in {"0", "1", "2", "3", "4", "5", "6", "7", "8", "9"}

DigitVal(c) ==
  CASE c = "0" -> 0 [] c = "1" -> 1 [] c = "2" -> 2 [] c = "3" -> 3
    [] c = "4" -> 4 [] c = "5" -> 5 [] c = "6" -> 6 [] c = "7" -> 7
    [] c = "8" -> 8 [] OTHER -> 9

DaysIn(y, m) ==
  CASE m \in {4, 6, 9, 11} -> 30
    [] m = 2 -> IF (y % 4 = 0 /\ y % 100 # 0) \/ y % 400 = 0 THEN 29 ELSE 28
    [] OTHER -> 31

\* pd.to_datetime(errors='coerce') followed by strftime('%Y-%m-%d'), on the
\* texts of the model: an ISO calendar date reads back as itself, any other
\* text of the model's value sets and a missing value are coerced to NaT.
IsIsoDate(v) ==
  /\ Len(v) = 10
  /\ v[5] = "-" /\ v[8] = "-"
  /\ \A i \in {1, 2, 3, 4, 6, 7, 9, 10} : IsDigit(v[i])
  /\ LET y == 1000 * DigitVal(v[1]) + 100 * DigitVal(v[2]) + 10 * DigitVal(v[3]) + DigitVal(v[4])
         m == 10 * DigitVal(v[6]) + DigitVal(v[7])
         d == 10 * DigitVal(v[9]) + DigitVal(v[10])
     IN  m \in 1..12 /\ d \in 1..DaysIn(y, m)

format_date_yyyy_mm_dd(input) ==
  IF input.kind # "Series" THEN Raised
  ELSE Returned("Series",
                [i \in 1..Len(input.values) |->
                   IF ~isna(input.values[i]) /\ IsIsoDate(input.values[i])
                   THEN input.values[i] ELSE EmptyStr])

\* get_version comparing the code itself with '', without strip().
get_version_unstripped(code) ==
  IF isna(code) \/ AsStr(code) = EmptyStr THEN EmptyStr ELSE <<"S">>

get_version(code) == IF isna(code) \/ Strip(AsStr(code)) = EmptyStr THEN EmptyStr ELSE <<"S">>

determine_dx_version(input) ==
  IF input.kind # "Series" THEN Raised
  ELSE Returned("Series", [i \in 1..Len(input.values) |-> get_version(input.values[i])])

get_rx_type(code) ==
  IF isna(code) \/ code = EmptyStr THEN EmptyStr ELSE <<"R", "R", "x", "U", "K">>

determine_rx_code_type(input) ==
  IF input.kind # "Series" THEN Raised
  ELSE Returned("Series", [i \in 1..Len(input.values) |-> get_rx_type(input.values[i])])

\* pd.Series('0', index=input_series.index)
set_zero_cost(input) ==
  IF input.kind # "Series" THEN Raised
  ELSE Returned("Series", Const(Len(input.values), <<"0">>))

set_zero_utilization(input) ==
  IF input.kind # "Series" THEN Raised
  ELSE Returned("Series", Const(Len(input.values), <<"0">>))

\* config.TRANSFORMATIONS
TRANSFORMATIONS ==
  {"transform_sex", "format_date_yyyy_mm_dd", "determine_dx_version",
   "determine_rx_code_type", "set_zero_cost", "set_zero_utilization"}

CallTransformation(key, input) ==
  CASE key = "transform_sex" -> transform_sex(input)
    [] key = "format_date_yyyy_mm_dd" -> format_date_yyyy_mm_dd(input)
    [] key = "determine_dx_version" -> determine_dx_version(input)
    [] key = "determine_rx_code_type" -> determine_rx_code_type(input)
    [] key = "set_zero_cost" -> set_zero_cost(input)
    [] OTHER -> set_zero_utilization(input)

\* ----------------------------------------------------------------- frames
Frame(index, columns, data, origin) ==
  [index |-> index, range |-> TRUE, columns |-> columns, data |-> data, origin |-> origin]

NRows(df) == Len(df.index)

\* DataFrame.empty: no rows or no columns.
IsEmpty(df) == NRows(df) = 0 \/ Len(df.columns) = 0

HasCol(df, c) == c \in Range(df.columns)

\* df[c]: the values of the (first) column named c.
Col(df, c) == df.data[IndexOf(df.columns, c)]

\* pd.DataFrame(index=source_df.index)
NewFrame(src) == [src EXCEPT !.columns = <<>>, !.data = <<>>]

\* Column assignment that leaves an existing column as it is.
SetColKeepFirst(df, c, vals) ==
  IF HasCol(df, c) THEN df
  ELSE [df EXCEPT !.columns = Append(df.columns, c), !.data = Append(df.data, vals)]

\* df[c] = series: an existing column is overwritten in place, a new one is
\* appended.  Every series the engine assigns carries the frame's own index,
\* so the alignment on row labels is position by position.
SetCol(df, c, vals) ==
  IF HasCol(df, c)
  THEN [df EXCEPT !.data[IndexOf(df.columns, c)] = vals]
  ELSE [df EXCEPT !.columns = Append(df.columns, c), !.data = Append(df.data, vals)]

\* df[cols] with every name of cols a column of df.
Select(df, cols) ==
  [df EXCEPT !.columns = cols,
             !.data = [k \in 1..Len(cols) |-> Col(df, cols[k])]]

\* The rows of df at the positions pos, in that order.
TakeRows(df, pos) ==
  [df EXCEPT !.index = Pick(df.index, pos),
             !.origin = Pick(df.origin, pos),
             !.data = [j \in 1..Len(df.data) |-> Pick(df.data[j], pos)]]

\* reset_index(drop=True), ignore_index=True: a fresh RangeIndex.
IgnoreIndex(df) == [df EXCEPT !.index = [i \in 1..NRows(df) |-> i - 1], !.range = TRUE]

\* An all-missing column: pd.Series(dtype='object', index=df.index).
NaNSeries(df) == Const(NRows(df), NaN)

\* A variant of the empty column that holds missing values instead.
EmptySeriesMissing(df) == NaNSeries(df)

\* pd.Series('', index=df.index)
EmptySeries(df) == Const(NRows(df), EmptyStr)

\* The checks on what the transformation gave back: an exception, or a
\* result of the wrong length, yields the all-missing column.
CheckedResult(result, source_df) ==
  IF result.raised THEN NaNSeries(source_df)
  ELSE IF Len(result.values) # NRows(source_df) THEN NaNSeries(source_df)
  ELSE result.values

\* A variant that hands the input column back when the key is not registered.
_apply_transformation_unknown_copies(transform_key, source_df, source_col_name) ==
  IF source_col_name # "" /\ ~HasCol(source_df, source_col_name) THEN NaNSeries(source_df)
  ELSE IF transform_key \notin TRANSFORMATIONS
       THEN IF source_col_name # "" THEN Col(source_df, source_col_name)
            ELSE NaNSeries(source_df)
  ELSE CheckedResult(
         CallTransformation(transform_key,
                            IF source_col_name # ""
                            THEN SeriesOf(Col(source_df, source_col_name))
                            ELSE RowLabels(source_df)),
         source_df)

\* processing._apply_transformation (the target column's name is only logged).
\* source_col_name is "" for None.
_apply_transformation(transform_key, source_df, source_col_name) ==
  IF transform_key \notin TRANSFORMATIONS THEN NaNSeries(source_df)
  ELSE IF source_col_name # "" /\ ~HasCol(source_df, source_col_name) THEN NaNSeries(source_df)
  ELSE CheckedResult(
         CallTransformation(transform_key,
                            IF source_col_name # ""
                            THEN SeriesOf(Col(source_df, source_col_name))
                            ELSE RowLabels(source_df)),
         source_df)

\* ------------------------------------------------------------ mapping rules
\* One row of mapping.csv, as loaded.
Rule(key, col, file, target, transform, label) ==
  [InputConfigKey |-> key, InputColumn |-> col, TargetACGFile |-> file,
   TargetACGColumn |-> target, TransformationFunction |-> transform,
   SourceLabel |-> label]

\* mapping_df[mapping_df[field] == value]
RulesWhere(rules, field, value) ==
  Pick(rules, PosSeq({i \in 1..Len(rules) : rules[i][field] = value}))

\* mapping['TargetACGColumn'].unique().tolist() and the like.
FieldUnique(rules, field) == Unique([i \in 1..Len(rules) |-> rules[i][field]])

\* A generator returns a frame or None, or lets an exception escape.
Value(v) == [raised |-> FALSE, value |-> v]
Escapes == [raised |-> TRUE, value |-> None]

\* ------------------------------------------------- _generate_patient_data
\* drop_duplicates with keep='last'.
DropDuplicatesKeepLast(df) ==
  LET key == Col(df, MERGE_KEY)
  IN  TakeRows(df, PosSeq({i \in 1..NRows(df) : \A j \in (i + 1)..NRows(df) : key[j] # key[i]}))

\* drop_duplicates(subset=[MERGE_KEY], keep='first'), applied when the key is
\* not unique (it changes nothing when it is).
DropDuplicatesKeepFirst(df) ==
  LET key == Col(df, MERGE_KEY)
  IN  TakeRows(df, PosSeq({i \in 1..NRows(df) : \A j \in 1..(i - 1) : key[j] # key[i]}))

\* set_index(MERGE_KEY, drop=False)
SetIndexMergeKey(df) == [df EXCEPT !.index = Col(df, MERGE_KEY), !.range = FALSE]

\* A variant that gives a rule of another input table with a source column
\* an empty column instead of skipping it.
PatientRuleNoSkip(out, rule, patient_details_df) ==
  LET input_col0 == rule.InputColumn
      transform_key == rule.TransformationFunction
      specified == ~IsBlankName(input_col0)
      input_col == IF specified THEN StripName(input_col0) ELSE input_col0
      found == specified /\ HasCol(patient_details_df, input_col)
      direct == IF specified
                THEN IF ~found THEN EmptySeries(out)
                     ELSE IF transform_key = "" THEN Col(patient_details_df, input_col)
                     ELSE NaNSeries(out)
                ELSE IF transform_key = "" THEN EmptySeries(out) ELSE NaNSeries(out)
      allowed == found \/ (input_col # NaNName /\ StripName(input_col) = "")
  IN  IF rule.InputConfigKey # "Patient_Details"
      THEN IF IsBlankName(input_col0)
           THEN SetCol(out, rule.TargetACGColumn,
                       IF transform_key # ""
                       THEN _apply_transformation(transform_key, patient_details_df, "")
                       ELSE EmptySeries(out))
           ELSE SetCol(out, rule.TargetACGColumn, EmptySeries(out))
      ELSE SetCol(out, rule.TargetACGColumn,
                  IF transform_key # "" /\ allowed
                  THEN _apply_transformation(transform_key, patient_details_df,
                                             IF found THEN input_col ELSE "")
                  ELSE direct)

\* The body of the loop over the patient_data rules, for one rule: the frame
\* with the rule's column assigned, or unchanged when the rule is skipped.
PatientRule(out, rule, patient_details_df) ==
  LET input_col0 == rule.InputColumn
      transform_key == rule.TransformationFunction
      specified == ~IsBlankName(input_col0)
      input_col == IF specified THEN StripName(input_col0) ELSE input_col0
      found == specified /\ HasCol(patient_details_df, input_col)
      direct == IF specified
                THEN IF ~found THEN EmptySeries(out)
                     ELSE IF transform_key = "" THEN Col(patient_details_df, input_col)
                     ELSE NaNSeries(out)
                ELSE IF transform_key = "" THEN EmptySeries(out) ELSE NaNSeries(out)
      allowed == found \/ (input_col # NaNName /\ StripName(input_col) = "")
  IN  IF rule.InputConfigKey # "Patient_Details"
      THEN IF IsBlankName(input_col0)
           THEN SetCol(out, rule.TargetACGColumn,
                       IF transform_key # ""
                       THEN _apply_transformation(transform_key, patient_details_df, "")
                       ELSE EmptySeries(out))
           ELSE out
      ELSE SetCol(out, rule.TargetACGColumn,
                  IF transform_key # "" /\ allowed
                  THEN _apply_transformation(transform_key, patient_details_df,
                                             IF found THEN input_col ELSE "")
                  ELSE direct)

RECURSIVE PatientRules(_, _, _, _)
PatientRules(out, rules, k, patient_details_df) ==
  IF k > Len(rules) THEN out
  ELSE PatientRules(PatientRule(out, rules[k], patient_details_df), rules, k + 1,
                    patient_details_df)

\* "Finalize Patient Data": the column order and the placement of the
\* identifier column, then the reorder (None on KeyError) and reset_index.
PatientFinalize(out, patient_mapping, patient_details_df) ==
  LET cols0 == FieldUnique(patient_mapping, "TargetACGColumn")
      inserted == ~HasCol(out, MERGE_KEY)
      final_cols ==
        IF "patient_id" \in Range(cols0) THEN MoveTo(cols0, "patient_id", 0)
        ELSE IF inserted THEN ListInsert(ListRemove(cols0, MERGE_KEY), 0, MERGE_KEY)
        ELSE ListInsert([i \in 1..Len(cols0) |->
                           IF i = IndexOf(cols0, MERGE_KEY) THEN "patient_id" ELSE cols0[i]],
                        0, "patient_id")
      out1 ==
        IF "patient_id" \in Range(cols0) THEN out
        ELSE IF inserted THEN SetCol(out, MERGE_KEY, Col(patient_details_df, MERGE_KEY))
        ELSE [out EXCEPT !.columns = [i \in 1..Len(out.columns) |->
                            IF out.columns[i] = MERGE_KEY THEN "patient_id" ELSE out.columns[i]]]
  IN  IF \E c \in Range(final_cols) : ~HasCol(out1, c) THEN None
      ELSE LET ordered == Select(out1, final_cols)
           IN  IgnoreIndex(ordered)

_generate_patient_data(input_data_dict, mapping_df) ==
  IF "Patient_Details" \notin DOMAIN input_data_dict THEN None
  ELSE IF ~HasCol(input_data_dict["Patient_Details"], MERGE_KEY) THEN None
  ELSE LET patient_details_df ==
             SetIndexMergeKey(DropDuplicatesKeepFirst(input_data_dict["Patient_Details"]))
           patient_mapping == RulesWhere(mapping_df, "TargetACGFile", "patient_data")
       IN  IF Len(patient_mapping) = 0 THEN None
           ELSE PatientFinalize(
                  PatientRules(NewFrame(patient_details_df), patient_mapping, 1,
                               patient_details_df),
                  patient_mapping, patient_details_df)

\* ------------------- _generate_medical_services / _generate_pharmacy_data
\* The two multi-source generators share their text line for line, except
\* for what these records hold: the columns forced to the front, the one
\* transformation that reads another rule's column, whether the
\* dx_version_1 filter applies, and the columns dropna requires.
MEDICAL ==
  [file |-> "medical_services", front |-> <<"patient_id", "dx_cd_1">>,
   dep_transform |-> "determine_dx_version", dep_target |-> "dx_cd_1",
   version_filter |-> TRUE, required_subset |-> <<"patient_id", "dx_cd_1">>]

PHARMACY ==
  [file |-> "pharmacy_data", front |-> <<"patient_id", "rx_cd", "rx_fill_date">>,
   dep_transform |-> "determine_rx_code_type", dep_target |-> "rx_cd",
   version_filter |-> FALSE, required_subset |-> <<"patient_id", "rx_cd">>]

\* target_columns: the distinct target columns of the file in first-seen
\* order, then each front column moved to its place, one after the other.
RECURSIVE Prioritise(_, _, _)
Prioritise(cols, front, k) ==
  IF k > Len(front) THEN cols
  ELSE Prioritise(MoveTo(cols, front[k], k - 1), front, k + 1)

\* A variant that keeps the first-seen order and moves no column forward.
TargetColumnsFirstSeen(file_mapping, G) == FieldUnique(file_mapping, "TargetACGColumn")

TargetColumns(file_mapping, G) ==
  Prioritise(FieldUnique(file_mapping, "TargetACGColumn"), G.front, 1)

\* The column one rule of a source group yields (the loop body up to the
\* assignment).
SourceRule(rule, source_mapping, source_df, G) ==
  LET input_col0 == rule.InputColumn
      transform_key == rule.TransformationFunction
      specified == ~IsBlankName(input_col0)
      input_col == IF specified THEN StripName(input_col0) ELSE input_col0
      found == specified /\ HasCol(source_df, input_col)
      source_col_for_transform == IF found THEN input_col ELSE ""
      direct == IF specified
                THEN IF ~found THEN EmptySeries(source_df)
                     ELSE IF transform_key = "" THEN Col(source_df, input_col)
                     ELSE NaNSeries(source_df)
                ELSE IF transform_key = "" THEN EmptySeries(source_df)
                     ELSE NaNSeries(source_df)
      dep_mapping == RulesWhere(source_mapping, "TargetACGColumn", G.dep_target)
      dep_input_col == dep_mapping[1].InputColumn
      actual_source_col ==
        IF transform_key = G.dep_transform
        THEN IF Len(dep_mapping) > 0
             THEN IF IsBlankName(dep_input_col) \/ ~HasCol(source_df, dep_input_col)
                  THEN "" ELSE dep_input_col
             ELSE ""
        ELSE source_col_for_transform
      can_transform == actual_source_col # "" /\ HasCol(source_df, actual_source_col)
      is_generation_transform == IsBlankName(input_col)
  IN  IF transform_key = "" THEN direct
      ELSE IF can_transform \/ is_generation_transform
           THEN _apply_transformation(transform_key, source_df, actual_source_col)
           ELSE EmptySeries(source_df)

RECURSIVE SourceRules(_, _, _, _, _)
SourceRules(out, source_mapping, k, source_df, G) ==
  IF k > Len(source_mapping) THEN out
  ELSE SourceRules(SetCol(out, source_mapping[k].TargetACGColumn,
                          SourceRule(source_mapping[k], source_mapping, source_df, G)),
                   source_mapping, k + 1, source_df, G)

\* "Add any standard target columns if they weren't mapped for this source"
RECURSIVE AddMissing(_, _, _)
AddMissing(out, target_columns, k) ==
  IF k > Len(target_columns) THEN out
  ELSE AddMissing(IF HasCol(out, target_columns[k]) THEN out
                  ELSE SetCol(out, target_columns[k], EmptySeries(out)),
                  target_columns, k + 1)

\* df[df[c].astype(str) != '']
NonEmptyText(df, c) ==
  TakeRows(df, PosSeq({i \in 1..NRows(df) : AsStr(Col(df, c)[i]) # EmptyStr}))

\* dropna called without inplace=True, its result discarded.
DropNaDiscarded(df, cols) == df

\* df.dropna(subset=cols, how='any')
DropNa(df, cols) ==
  TakeRows(df, PosSeq({i \in 1..NRows(df) : \A c \in Range(cols) : ~isna(Col(df, c)[i])}))

\* The filter with the two text conditions joined by | instead of &: a row
\* stays when either required column is non-empty.
FilterSourceEither(df, G) ==
  LET versioned == IF G.version_filter /\ HasCol(df, "dx_version_1")
                   THEN NonEmptyText(df, "dx_version_1") ELSE df
  IN  IF \E c \in Range(G.required_subset) : ~HasCol(versioned, c) THEN Escapes
      ELSE LET dropped == DropNa(versioned, G.required_subset)
           IN  Value(TakeRows(dropped,
                       PosSeq({i \in 1..NRows(dropped) :
                                 \E c \in Range(G.required_subset) :
                                    AsStr(Col(dropped, c)[i]) # EmptyStr})))

\* The filter of one source's frame.  dropna raises KeyError when a column of
\* required_subset is no column of the frame.
FilterSource(df, G) ==
  LET versioned == IF G.version_filter /\ HasCol(df, "dx_version_1")
                   THEN NonEmptyText(df, "dx_version_1") ELSE df
  IN  IF \E c \in Range(G.required_subset) : ~HasCol(versioned, c) THEN Escapes
      ELSE LET dropped == DropNa(versioned, G.required_subset)
           IN  Value(TakeRows(dropped,
                       PosSeq({i \in 1..NRows(dropped) :
                                 \A c \in Range(G.required_subset) :
                                    AsStr(Col(dropped, c)[i]) # EmptyStr})))

\* A variant that puts the later frames first.
RECURSIVE ConcatReversed(_)
ConcatReversed(frames) ==
  IF Len(frames) = 1 THEN frames[1]
  ELSE LET a == ConcatReversed(Tail(frames))
           b == frames[1]
       IN  Frame(a.index \o b.index, a.columns,
                 [j \in 1..Len(a.columns) |-> a.data[j] \o b.data[j]],
                 a.origin \o b.origin)

\* pd.concat(frames, ignore_index=True) of frames with the same columns.
RECURSIVE Concat(_)
Concat(frames) ==
  IF Len(frames) = 1 THEN frames[1]
  ELSE LET a == frames[1]
           b == Concat(Tail(frames))
       IN  Frame(a.index \o b.index, a.columns,
                 [j \in 1..Len(a.columns) |-> a.data[j] \o b.data[j]],
                 a.origin \o b.origin)

\* The origin of a row of a source's frame: its label and its input row.
Tagged(df, source_label) ==
  [df EXCEPT !.origin = [i \in 1..NRows(df) |-> <<source_label, df.origin[i]>>]]

\* One pass of the loop over the source labels, from the copy of the source
\* table on: the columns of the rules, the missing target columns, the
\* order, the filter.
ProcessTable(source_label, source_mapping, source_df, target_columns, G) ==
  IF IsEmpty(source_df) THEN Value(None)
  ELSE FilterSource(
         Tagged(Select(AddMissing(SourceRules(NewFrame(source_df), source_mapping, 1,
                                              source_df, G),
                                  target_columns, 1),
                       target_columns),
                source_label),
         G)

\* One pass of the loop, from the rules of the label on: None when the
\* source is skipped (`continue`).
ProcessGroup(source_label, source_mapping, input_keys, target_columns, input_data_dict, G) ==
  IF Len(input_keys) > 1 THEN Value(None)
  ELSE IF input_keys[1] \notin DOMAIN input_data_dict THEN Value(None)
  ELSE ProcessTable(source_label, source_mapping, input_data_dict[input_keys[1]],
                    target_columns, G)

ProcessSource(source_label, file_mapping, target_columns, input_data_dict, G) ==
  IF source_label = "" THEN Value(None)
  ELSE ProcessGroup(source_label,
                    RulesWhere(file_mapping, "SourceLabel", source_label),
                    FieldUnique(RulesWhere(file_mapping, "SourceLabel", source_label),
                                "InputConfigKey"),
                    target_columns, input_data_dict, G)

\* What follows the loop: the frames of the sources that kept rows (at the
\* positions kept), concatenated in label order and put in column order.
ConcatKept(results, kept, target_columns) ==
  IF Len(kept) = 0 THEN Value(None)
  ELSE Value(Select(IgnoreIndex(Concat([k \in 1..Len(kept) |-> results[kept[k]].value])),
                    target_columns))

\* A variant in which a pass without rows ends the loop: only the frames
\* before it are kept.
CollectUntilSkipped(results, target_columns) ==
  IF \E k \in 1..Len(results) : results[k].raised THEN Escapes
  ELSE ConcatKept(results,
                  PosSeq({k \in 1..Len(results) :
                            \A j \in 1..k :
                              results[j].value # None /\ ~IsEmpty(results[j].value)}),
                  target_columns)

\* An exception in one pass ends the loop and escapes the generator.
Collect(results, target_columns) ==
  IF \E k \in 1..Len(results) : results[k].raised THEN Escapes
  ELSE ConcatKept(results,
                  PosSeq({k \in 1..Len(results) :
                            results[k].value # None /\ ~IsEmpty(results[k].value)}),
                  target_columns)

SourceLoop(file_mapping, source_labels, target_columns, input_data_dict, G) ==
  IF Len(file_mapping) = 0 THEN Value(None)
  ELSE IF Len(source_labels) = 0 \/ (Len(source_labels) = 1 /\ source_labels[1] = "")
  THEN Value(None)
  ELSE Collect([k \in 1..Len(source_labels) |->
                  ProcessSource(source_labels[k], file_mapping, target_columns,
                                input_data_dict, G)],
               target_columns)

FileMapping(file_mapping, input_data_dict, G) ==
  SourceLoop(file_mapping, FieldUnique(file_mapping, "SourceLabel"),
             TargetColumns(file_mapping, G), input_data_dict, G)

GenerateMultiSource(input_data_dict, mapping_df, G) ==
  FileMapping(RulesWhere(mapping_df, "TargetACGFile", G.file), input_data_dict, G)

_generate_medical_services(input_data_dict, mapping_df) ==
  GenerateMultiSource(input_data_dict, mapping_df, MEDICAL)

_generate_pharmacy_data(input_data_dict, mapping_df) ==
  GenerateMultiSource(input_data_dict, mapping_df, PHARMACY)

\* ----------------------------------------------------- generate_acg_files
VARIABLES
  pc,                       \* where generate_acg_files stands
  mapping_file,             \* mapping.csv as it lies on disk
  input_data_dict,          \* the caller's tables, by dataset key
  mapping_df,               \* the loaded rules, None before the load
  patient_df, medical_df, pharmacy_df,   \* what each generator returned
  generation_successful,
  output_files_generated,   \* the target files written, in order
  files,                    \* the content of each written file
  error,                    \* the exception that left generate_acg_files
  events,                   \* history: the steps taken, in order
  call,                     \* one call of _apply_transformation on its own
  return_value,             \* what generate_acg_files handed back to its caller
  worker,                   \* one ProcessingWorker: its fields and where run() stands
  window                    \* the MainWindow: its fields, its threads, the signals in flight

vars ==
  <<pc, mapping_file, input_data_dict, mapping_df, patient_df, medical_df,
    pharmacy_df, generation_successful, output_files_generated, files, error,
    events, call, return_value, worker, window>>

\* generate_acg_files has not handed anything back (yet).
NoValue == [kind |-> "NoValue"]

\* No ProcessingWorker was constructed; no MainWindow is open.
NoWorker == [pc |-> "none"]
NoWindow == [open |-> FALSE]

NoError == [type |-> "", message |-> ""]
RuntimeError(msg) == [type |-> "RuntimeError", message |-> msg]
KeyError == [type |-> "KeyError", message |-> ""]

required_cols == {"InputConfigKey", "InputColumn", "TargetACGFile", "TargetACGColumn"}
AllMappingColumns == required_cols \cup {"TransformationFunction", "SourceLabel"}

\* Series.fillna('') on a column of names.
FillNaName(n) == IF n = NaNName THEN "" ELSE n

\* The load without the check of the required columns.
LoadOutcomeUnchecked(file) ==
  CASE file.state = "missing" -> "FileNotFoundError"
    [] file.state = "empty" -> "ValueError"
    [] file.state = "unreadable" -> "Exception"
    [] OTHER -> ""

\* What the try block of "Load Mapping File" ends with: the exception it
\* raises ("" for none).  pd.read_csv raises FileNotFoundError for a missing
\* file, EmptyDataError (a ValueError) for a file with no columns to parse,
\* and some other exception for a file it cannot read; a missing required
\* column raises ValueError; mapping_df['TransformationFunction'] and
\* mapping_df['SourceLabel'] raise KeyError when the column is absent.
LoadOutcome(file) ==
  CASE file.state = "missing" -> "FileNotFoundError"
    [] file.state = "empty" -> "ValueError"
    [] file.state = "unreadable" -> "Exception"
    [] OTHER ->
         IF ~(required_cols \subseteq file.header) THEN "ValueError"
         ELSE IF "TransformationFunction" \notin file.header THEN "KeyError"
         ELSE IF "SourceLabel" \notin file.header THEN "KeyError"
         ELSE ""

\* The except clauses: each turns the exception into a RuntimeError.
LoadError(outcome) ==
  CASE outcome = "FileNotFoundError" -> RuntimeError("Mapping file not found")
    [] outcome = "ValueError" -> RuntimeError("Invalid mapping file")
    [] OTHER -> RuntimeError("Failed to load mapping file")

LoadedRules(file) ==
  [i \in 1..Len(file.rows) |->
     [file.rows[i] EXCEPT !.TransformationFunction = FillNaName(@),
                          !.SourceLabel = FillNaName(@)]]

\* DataFrame.to_csv(index=False, header=False): the data rows only, a missing
\* value written as an empty field.
ToCsv(df) ==
  [rows |-> [i \in 1..NRows(df) |->
               [j \in 1..Len(df.columns) |->
                  IF isna(df.data[j][i]) THEN EmptyStr ELSE df.data[j][i]]]]

LoadMapping ==
  /\ pc = "load"
  /\ LET outcome == LoadOutcome(mapping_file)
     IN  IF outcome # ""
         THEN /\ error' = LoadError(outcome)
              /\ pc' = "raised"
              /\ UNCHANGED mapping_df
         ELSE /\ mapping_df' = LoadedRules(mapping_file)
              /\ pc' = "patient"
              /\ UNCHANGED error
  /\ events' = Append(events, "load")
  /\ UNCHANGED <<worker, window>>
  /\ UNCHANGED <<mapping_file, input_data_dict, patient_df, medical_df, pharmacy_df,
                 generation_successful, output_files_generated, files, call, return_value>>

\* _generate_patient_data without the .copy() of line 82: when the merge key
\* is there and unique (no drop_duplicates rebinding the name to a new
\* frame), set_index(inplace=True) re-labels the caller's own table.
CallerTablesShared(tables) ==
  IF "Patient_Details" \in DOMAIN tables
  THEN LET t == tables["Patient_Details"]
       IN  IF HasCol(t, MERGE_KEY) /\ DropDuplicatesKeepFirst(t) = t
           THEN [tables EXCEPT !["Patient_Details"] = SetIndexMergeKey(t)]
           ELSE tables
  ELSE tables

\* The caller's tables after _generate_patient_data: the generator works on
\* patient_details_df = input_data_dict[...].copy(), so its one in-place
\* operation, set_index(inplace=True), changes the copy alone.
CallerTablesAfterPatient(tables) == tables

RunPatient ==
  /\ pc = "patient"
  /\ patient_df' = _generate_patient_data(input_data_dict, mapping_df)
  /\ input_data_dict' = CallerTablesAfterPatient(input_data_dict)
  /\ pc' = "save_patient"
  /\ events' = Append(events, "patient_data")
  /\ UNCHANGED <<worker, window>>
  /\ UNCHANGED <<mapping_file, mapping_df, medical_df, pharmacy_df,
                 generation_successful, output_files_generated, files, error, call, return_value>>

\* A variant whose skipped save leaves the success flag alone.
SaveSkipIgnored(df, target, essential, next) ==
  /\ IF df # None /\ ~IsEmpty(df)
     THEN \E written \in BOOLEAN :
            IF written
            THEN /\ files' = [files EXCEPT ![target] = ToCsv(df)]
                 /\ output_files_generated' = Append(output_files_generated, target)
                 /\ events' = Append(events, "write")
                 /\ UNCHANGED generation_successful
            ELSE /\ generation_successful' = (generation_successful /\ ~essential)
                 /\ events' = Append(events, "write_failed")
                 /\ UNCHANGED <<files, output_files_generated>>
     ELSE /\ events' = Append(events, "not_saved")
          /\ UNCHANGED <<files, output_files_generated, generation_successful>>
  /\ pc' = next
  /\ UNCHANGED <<worker, window>>
  /\ UNCHANGED <<mapping_file, input_data_dict, mapping_df, patient_df, medical_df,
                 pharmacy_df, error, call, return_value>>

\* The `if df is not None and not df.empty: try: to_csv ... except` block of
\* one target file.  The write itself succeeds or raises, as the file system
\* decides; `essential` is whether a failure clears generation_successful.
Save(df, target, essential, next) ==
  /\ IF df # None /\ ~IsEmpty(df)
     THEN \E written \in BOOLEAN :
            IF written
            THEN /\ files' = [files EXCEPT ![target] = ToCsv(df)]
                 /\ output_files_generated' = Append(output_files_generated, target)
                 /\ events' = Append(events, "write")
                 /\ UNCHANGED generation_successful
            ELSE /\ generation_successful' = (generation_successful /\ ~essential)
                 /\ events' = Append(events, "write_failed")
                 /\ UNCHANGED <<files, output_files_generated>>
     ELSE /\ generation_successful' = (generation_successful /\ ~essential)
          /\ events' = Append(events, "not_saved")
          /\ UNCHANGED <<files, output_files_generated>>
  /\ pc' = next
  /\ UNCHANGED <<worker, window>>
  /\ UNCHANGED <<mapping_file, input_data_dict, mapping_df, patient_df, medical_df,
                 pharmacy_df, error, call, return_value>>

SavePatient == pc = "save_patient" /\ Save(patient_df, "patient_data", TRUE, "medical")

\* A generator that lets an exception escape ends generate_acg_files there.
RunMultiSource(result, target, next) ==
  /\ IF result.raised
     THEN /\ error' = KeyError
          /\ pc' = "raised"
     ELSE /\ pc' = next
          /\ UNCHANGED error
  /\ events' = Append(events, target)
  /\ UNCHANGED <<worker, window>>
  /\ UNCHANGED <<mapping_file, input_data_dict, mapping_df, patient_df,
                 generation_successful, output_files_generated, files, call, return_value>>

RunMedical ==
  /\ pc = "medical"
  /\ LET result == _generate_medical_services(input_data_dict, mapping_df)
     IN  /\ medical_df' = result.value
         /\ RunMultiSource(result, "medical_services", "save_medical")
  /\ UNCHANGED pharmacy_df

SaveMedical == pc = "save_medical" /\ Save(medical_df, "medical_services", TRUE, "pharmacy")

RunPharmacy ==
  /\ pc = "pharmacy"
  /\ LET result == _generate_pharmacy_data(input_data_dict, mapping_df)
     IN  /\ pharmacy_df' = result.value
         /\ RunMultiSource(result, "pharmacy_data", "save_pharmacy")
  /\ UNCHANGED medical_df

SavePharmacy == pc = "save_pharmacy" /\ Save(pharmacy_df, "pharmacy_data", FALSE, "finish")

\* "Raise an error if essential files weren't generated"; otherwise the
\* function body ends without a return statement, which hands back None.
Finish ==
  /\ pc = "finish"
  /\ IF ~generation_successful
     THEN /\ error' = RuntimeError("Failed to generate essential ACG files")
          /\ pc' = "raised"
          /\ UNCHANGED return_value
     ELSE /\ pc' = "returned"
          /\ return_value' = None
          /\ UNCHANGED error
  /\ events' = Append(events, "finish")
  /\ UNCHANGED <<worker, window>>
  /\ UNCHANGED <<mapping_file, input_data_dict, mapping_df, patient_df, medical_df,
                 pharmacy_df, generation_successful, output_files_generated, files, call>>

Next ==
  \/ LoadMapping
  \/ RunPatient
  \/ SavePatient
  \/ RunMedical
  \/ SaveMedical
  \/ RunPharmacy
  \/ SavePharmacy
  \/ Finish

\* One call of _apply_transformation, on a table built for it.
ApplyTransformation ==
  /\ call.state = "ready"
  /\ call' = [call EXCEPT !.state = "done",
                          !.result = _apply_transformation(call.transform_key, call.source_df,
                                                           call.source_col_name)]
  /\ UNCHANGED <<worker, window>>
  /\ UNCHANGED <<pc, mapping_file, input_data_dict, mapping_df, patient_df, medical_df,
                 pharmacy_df, generation_successful, output_files_generated, files, error,
                 events, return_value>>

NextTransformation == ApplyTransformation

\* ------------------------------------------------------------------ inputs
\* A table as pd.read_csv hands it over: RangeIndex, rows given as tuples.
Table(columns, rows) ==
  Frame([i \in 1..Len(rows) |-> i - 1], columns,
        [j \in 1..Len(columns) |-> [i \in 1..Len(rows) |-> rows[i][j]]],
        [i \in 1..Len(rows) |-> i])

\* pd.DataFrame(): what the caller supplies for an empty file.
NoColumns == Table(<<>>, <<>>)

Code1 == <<"G", "3", "0">>
Code2 == <<"H", "5", "4">>

PatientColumns == <<"PatientID", "GenderCode">>
CareColumns == <<"PatientID", "Code">>
MedicationColumns == <<"PatientID", "DrugCode">>

\* mapping.csv holding these rules under the full header.  A blank cell of
\* the file is NaNName in every column.
MappingFile(rules) == [state |-> "table", header |-> AllMappingColumns, rows |-> rules]

DefaultPatient ==
  <<Rule("Patient_Details", "PatientID", "patient_data", "patient_id", NaNName, NaNName)>>

DefaultMedical ==
  <<Rule("Care_History", "PatientID", "medical_services", "patient_id", NaNName, "care"),
    Rule("Care_History", "Code", "medical_services", "dx_cd_1", NaNName, "care")>>

DefaultPharmacy ==
  <<Rule("Medication_History", "PatientID", "pharmacy_data", "patient_id", NaNName, "meds"),
    Rule("Medication_History", "DrugCode", "pharmacy_data", "rx_cd", NaNName, "meds")>>

DefaultPatientTable == Table(PatientColumns, <<<<<<"1">>, <<"M">>>>>>)
DefaultCareTable == Table(CareColumns, <<<<<<"1">>, Code1>>>>)
DefaultMedicationTable == Table(MedicationColumns, <<<<<<"1">>, Code2>>>>)

Dict(patient, care, medication) ==
  [k \in {"Patient_Details", "Care_History", "Medication_History"} |->
     CASE k = "Patient_Details" -> patient
       [] k = "Care_History" -> care
       [] OTHER -> medication]

Without(dict, keys) == [k \in DOMAIN dict \ keys |-> dict[k]]

\* The state on entry to generate_acg_files(input_data_dict, output_dir).
InitRun(file, dict) ==
  /\ pc = "load"
  /\ mapping_file = file
  /\ input_data_dict = dict
  /\ mapping_df = None
  /\ patient_df = None
  /\ medical_df = None
  /\ pharmacy_df = None
  /\ generation_successful = TRUE
  /\ output_files_generated = <<>>
  /\ files = [t \in {"patient_data", "medical_services", "pharmacy_data"} |-> None]
  /\ error = NoError
  /\ events = <<>>
  /\ return_value = NoValue
  /\ call = [state |-> "idle"]
  /\ worker = NoWorker
  /\ window = NoWindow

\* ---- the run as a whole: the mapping file in every shape the load tells
\* apart, each target file's rules absent, usable or unusable, each table
\* absent, empty or present.
Headers ==
  {AllMappingColumns} \cup {AllMappingColumns \ {c} : c \in AllMappingColumns}
  \cup {required_cols}

RunPatientParts ==
  {<<>>, DefaultPatient,
   <<Rule("Care_History", "Code", "patient_data", "dx", NaNName, NaNName)>>}

RunMedicalParts ==
  {<<>>, DefaultMedical,
   \* no source label at all
   <<Rule("Care_History", "PatientID", "medical_services", "patient_id", NaNName, NaNName),
     Rule("Care_History", "Code", "medical_services", "dx_cd_1", NaNName, NaNName)>>,
   \* no rule for dx_cd_1
   <<Rule("Care_History", "PatientID", "medical_services", "patient_id", NaNName, "care")>>}

RunPharmacyParts ==
  {<<>>, DefaultPharmacy,
   <<Rule("Medication_History", "PatientID", "pharmacy_data", "patient_id", NaNName, NaNName),
     Rule("Medication_History", "DrugCode", "pharmacy_data", "rx_cd", NaNName, NaNName)>>,
   \* no rule for rx_cd
   <<Rule("Medication_History", "PatientID", "pharmacy_data", "patient_id", NaNName, "meds")>>,
   \* a source column the table does not have
   <<Rule("Medication_History", "PatientID", "pharmacy_data", "patient_id", NaNName, "meds"),
     Rule("Medication_History", "Missing", "pharmacy_data", "rx_cd", NaNName, "meds")>>}

RunFiles ==
  {[state |-> st, header |-> {}, rows |-> <<>>] : st \in {"missing", "empty", "unreadable"}}
  \cup {[state |-> "table", header |-> h, rows |-> DefaultPatient \o DefaultMedical \o DefaultPharmacy] :
          h \in Headers}
  \cup {MappingFile(p \o m \o x) :
          p \in RunPatientParts, m \in RunMedicalParts, x \in RunPharmacyParts}

RunDicts ==
  LET full == Dict(DefaultPatientTable, DefaultCareTable, DefaultMedicationTable)
  IN  {Without(full, absent) : absent \in SUBSET DOMAIN full}
      \cup {Dict(p, c, m) : p \in {DefaultPatientTable, NoColumns},
                            c \in {DefaultCareTable, Table(CareColumns, <<>>)},
                            m \in {DefaultMedicationTable, NoColumns}}

Init == \E file \in RunFiles, dict \in RunDicts : InitRun(file, dict)

Spec == Init /\ [][Next]_vars

\* ---- the generators one by one: the rules of one target file vary over
\* the sequences of at most MaxRules rules of a pool while the other two
\* files keep their default rules, and that file's source table varies.
PatientRulePool ==
  {Rule("Patient_Details", "PatientID", "patient_data", "patient_id", NaNName, NaNName),
   Rule("Patient_Details", "PatientID", "patient_data", "PatientID", NaNName, NaNName),
   Rule("Patient_Details", "GenderCode", "patient_data", "sex", "transform_sex", NaNName),
   Rule("Patient_Details", "GenderCode", "patient_data", "sex", NaNName, NaNName),
   Rule("Patient_Details", "GenderCode", "patient_data", "patient_id", NaNName, NaNName),
   Rule("Patient_Details", "Missing", "patient_data", "age", NaNName, NaNName),
   Rule("Patient_Details", NaNName, "patient_data", "cost", "set_zero_cost", NaNName),
   Rule("Care_History", "Code", "patient_data", "dx", NaNName, NaNName)}

PatientRows == {<<<<"1">>, <<"M">>>>, <<<<"1">>, <<"f">>>>, <<<<"2">>, <<"M">>>>}

\* Three rows, the first and the last with the same merge key.
DuplicateKeyTable ==
  Table(PatientColumns, <<<<<<"1">>, <<"M">>>>, <<<<"2">>, <<"f">>>>, <<<<"1">>, <<"f">>>>>>)

PatientFocus ==
  {<<MappingFile(p \o DefaultMedical \o DefaultPharmacy),
     Dict(t, DefaultCareTable, DefaultMedicationTable)>> :
     p \in SeqUpTo(PatientRulePool, MaxRules),
     t \in {DuplicateKeyTable, Table(<<"GenderCode">>, <<<<<<"M">>>>>>)}}
  \cup
  {<<MappingFile(p \o DefaultMedical \o DefaultPharmacy),
     Dict(Table(PatientColumns, rows), DefaultCareTable, DefaultMedicationTable)>> :
     p \in {DefaultPatient,
            <<Rule("Patient_Details", "GenderCode", "patient_data", "sex", NaNName, NaNName)>>},
     rows \in SeqUpTo(PatientRows, MaxRows)}

\* The rules a medical_services mapping starts with, and those that follow.
MedicalBases == {<<>>, SubSeq(DefaultMedical, 1, 1), DefaultMedical}

MedicalRulePool ==
  {Rule("Care_History", "Code", "medical_services", "dx_version_1", "determine_dx_version", "care"),
   Rule("Care_History", NaNName, "medical_services", "dx_version_1", "determine_dx_version", "care"),
   Rule("Care_History", "Code", "medical_services", "dx_version_1", "no_such_function", "care"),
   Rule("Care_History", "Code", "medical_services", "dx_version_1", NaNName, "care"),
   Rule("Care_History", "Missing", "medical_services", "dx_cd_1", NaNName, "care"),
   Rule("Care_History", "PatientID", "medical_services", "dx_cd_1", NaNName, "care"),
   Rule("Medication_History", "DrugCode", "medical_services", "dx_cd_1", NaNName, "care"),
   Rule("Medication_History", "PatientID", "medical_services", "patient_id", NaNName, "meds"),
   Rule("Medication_History", "DrugCode", "medical_services", "dx_cd_1", NaNName, "meds"),
   Rule("Care_History", "Code", "medical_services", "note", NaNName, NaNName)}

\* One row for each way a row can fail the filter, and two that pass.
CareRows ==
  {<<<<"1">>, Code1>>, <<<<"2">>, Code2>>, <<NaN, Code1>>, <<EmptyStr, Code1>>,
   <<<<"1">>, NaN>>, <<<<"1">>, EmptyStr>>, <<<<"1">>, <<" ">>>>}

EveryCareRow ==
  Table(CareColumns,
        <<<<<<"1">>, Code1>>, <<NaN, Code1>>, <<EmptyStr, Code1>>, <<<<"1">>, NaN>>,
          <<<<"1">>, EmptyStr>>, <<<<"1">>, <<" ">>>>, <<<<"2">>, Code2>>>>)

MedicalFocus ==
  {<<MappingFile(DefaultPatient \o b \o m \o DefaultPharmacy),
     Dict(DefaultPatientTable, EveryCareRow, DefaultMedicationTable)>> :
     b \in MedicalBases, m \in SeqUpTo(MedicalRulePool, MaxRules)}
  \cup
  {<<MappingFile(DefaultPatient \o m \o DefaultPharmacy),
     Dict(DefaultPatientTable, Table(CareColumns, rows), DefaultMedicationTable)>> :
     m \in {DefaultMedical,
            DefaultMedical \o
              <<Rule("Care_History", "Code", "medical_services", "dx_version_1",
                     "determine_dx_version", "care")>>},
     rows \in SeqUpTo(CareRows, MaxRows)}

PharmacyBases == {<<>>, SubSeq(DefaultPharmacy, 1, 1), DefaultPharmacy}

PharmacyRulePool ==
  {Rule("Medication_History", "DrugCode", "pharmacy_data", "rx_code_type", "determine_rx_code_type", "meds"),
   Rule("Medication_History", "DrugCode", "pharmacy_data", "rx_fill_date", NaNName, "meds"),
   Rule("Medication_History", "Missing", "pharmacy_data", "rx_cd", NaNName, "meds"),
   Rule("Medication_History", "PatientID", "pharmacy_data", "rx_cd", NaNName, "meds"),
   Rule("Care_History", "Code", "pharmacy_data", "rx_cd", NaNName, "meds"),
   Rule("Care_History", "PatientID", "pharmacy_data", "patient_id", NaNName, "care"),
   Rule("Care_History", "Code", "pharmacy_data", "rx_cd", NaNName, "care"),
   Rule("Medication_History", "DrugCode", "pharmacy_data", "note", NaNName, NaNName)}

MedicationRows ==
  {<<<<"1">>, Code2>>, <<<<"2">>, Code1>>, <<NaN, Code2>>, <<EmptyStr, Code2>>,
   <<<<"1">>, NaN>>, <<<<"1">>, EmptyStr>>}

EveryMedicationRow ==
  Table(MedicationColumns,
        <<<<<<"1">>, Code2>>, <<NaN, Code2>>, <<EmptyStr, Code2>>, <<<<"1">>, NaN>>,
          <<<<"1">>, EmptyStr>>, <<<<"2">>, Code1>>>>)

PharmacyFocus ==
  {<<MappingFile(DefaultPatient \o DefaultMedical \o b \o x),
     Dict(DefaultPatientTable, DefaultCareTable, EveryMedicationRow)>> :
     b \in PharmacyBases, x \in SeqUpTo(PharmacyRulePool, MaxRules)}
  \cup
  {<<MappingFile(DefaultPatient \o DefaultMedical \o DefaultPharmacy),
     Dict(DefaultPatientTable, DefaultCareTable, Table(MedicationColumns, rows))>> :
     rows \in SeqUpTo(MedicationRows, MaxRows)}

InitGenerators ==
  \E input \in PatientFocus \cup MedicalFocus \cup PharmacyFocus : InitRun(input[1], input[2])

SpecGenerators == InitGenerators /\ [][Next]_vars

\* ---- the columns of the rules: generated columns (no source column),
\* unknown transformations and the transformations that read another rule's
\* column, in each of the three generators, the other two files keeping
\* their default rules.
PatientColumnPool ==
  {Rule("Patient_Details", "PatientID", "patient_data", "patient_id", NaNName, NaNName),
   Rule("Patient_Details", "GenderCode", "patient_data", "sex", "transform_sex", NaNName),
   Rule("Patient_Details", "GenderCode", "patient_data", "sex", "no_such_function", NaNName),
   Rule("Patient_Details", "Missing", "patient_data", "age", "no_such_function", NaNName),
   Rule("Patient_Details", NaNName, "patient_data", "cost", "set_zero_cost", NaNName),
   Rule("Patient_Details", " ", "patient_data", "visits", "set_zero_utilization", NaNName),
   Rule("Care_History", NaNName, "patient_data", "cost", "set_zero_cost", NaNName)}

MedicalColumnPool ==
  {Rule("Care_History", "Code", "medical_services", "dx_cd_1", NaNName, "care"),
   Rule("Care_History", " Code ", "medical_services", "dx_cd_1", NaNName, "care"),
   Rule("Care_History", "Missing", "medical_services", "dx_cd_1", NaNName, "care"),
   Rule("Care_History", NaNName, "medical_services", "dx_cd_1", NaNName, "care"),
   Rule("Care_History", "Code", "medical_services", "dx_cd_1", "no_such_function", "care"),
   Rule("Care_History", "Code", "medical_services", "dx_version_1", "determine_dx_version", "care"),
   Rule("Care_History", "PatientID", "medical_services", "dx_version_1", "determine_dx_version", "care"),
   Rule("Care_History", NaNName, "medical_services", "dx_version_1", "determine_dx_version", "care"),
   Rule("Care_History", NaNName, "medical_services", "cost", "set_zero_cost", "care"),
   Rule("Care_History", " ", "medical_services", "visits", "set_zero_utilization", "care"),
   Rule("Care_History", "Code", "medical_services", "note", "no_such_function", "care")}

PharmacyColumnPool ==
  {Rule("Medication_History", "DrugCode", "pharmacy_data", "rx_cd", NaNName, "meds"),
   Rule("Medication_History", " DrugCode ", "pharmacy_data", "rx_cd", NaNName, "meds"),
   Rule("Medication_History", "Missing", "pharmacy_data", "rx_cd", NaNName, "meds"),
   Rule("Medication_History", "DrugCode", "pharmacy_data", "rx_cd", "no_such_function", "meds"),
   Rule("Medication_History", "DrugCode", "pharmacy_data", "rx_code_type", "determine_rx_code_type", "meds"),
   Rule("Medication_History", "PatientID", "pharmacy_data", "rx_code_type", "determine_rx_code_type", "meds"),
   Rule("Medication_History", NaNName, "pharmacy_data", "rx_code_type", "determine_rx_code_type", "meds"),
   Rule("Medication_History", NaNName, "pharmacy_data", "cost", "set_zero_cost", "meds"),
   Rule("Medication_History", "DrugCode", "pharmacy_data", "note", "no_such_function", "meds")}

ColumnsFocus ==
  {<<MappingFile(p \o DefaultMedical \o DefaultPharmacy),
     Dict(DuplicateKeyTable, DefaultCareTable, DefaultMedicationTable)>> :
     p \in SeqUpTo(PatientColumnPool, MaxRules)}
  \cup
  {<<MappingFile(DefaultPatient \o SubSeq(DefaultMedical, 1, 1) \o m \o DefaultPharmacy),
     Dict(DefaultPatientTable, EveryCareRow, DefaultMedicationTable)>> :
     m \in SeqUpTo(MedicalColumnPool, MaxRules)}
  \cup
  {<<MappingFile(DefaultPatient \o DefaultMedical \o SubSeq(DefaultPharmacy, 1, 1) \o x),
     Dict(DefaultPatientTable, DefaultCareTable, EveryMedicationRow)>> :
     x \in SeqUpTo(PharmacyColumnPool, MaxRules)}

InitColumns == \E input \in ColumnsFocus : InitRun(input[1], input[2])

SpecColumns == InitColumns /\ [][Next]_vars

\* ---- rules that name a source column their table does not have, with no
\* transformation, with a registered one, and with the transformation that
\* reads another rule's column.
PatientMissingPool ==
  {Rule("Patient_Details", "PatientID", "patient_data", "patient_id", NaNName, NaNName),
   Rule("Patient_Details", "GenderCode", "patient_data", "sex", "transform_sex", NaNName),
   Rule("Patient_Details", "Missing", "patient_data", "sex", "transform_sex", NaNName),
   Rule("Patient_Details", "Missing", "patient_data", "age", NaNName, NaNName)}

MedicalMissingPool ==
  {Rule("Care_History", "Missing", "medical_services", "dx_version_1", "determine_dx_version", "care"),
   Rule("Care_History", "Missing", "medical_services", "note", "transform_sex", "care"),
   Rule("Care_History", "Missing", "medical_services", "note", NaNName, "care"),
   Rule("Care_History", "Code", "medical_services", "note", NaNName, "care")}

PharmacyMissingPool ==
  {Rule("Medication_History", "Missing", "pharmacy_data", "rx_code_type", "determine_rx_code_type", "meds"),
   Rule("Medication_History", "Missing", "pharmacy_data", "note", "transform_sex", "meds"),
   Rule("Medication_History", "Missing", "pharmacy_data", "note", NaNName, "meds"),
   Rule("Medication_History", "DrugCode", "pharmacy_data", "note", NaNName, "meds")}

MissingFocus ==
  {<<MappingFile(p \o DefaultMedical \o DefaultPharmacy),
     Dict(DuplicateKeyTable, DefaultCareTable, DefaultMedicationTable)>> :
     p \in SeqUpTo(PatientMissingPool, MaxRules)}
  \cup
  {<<MappingFile(DefaultPatient \o DefaultMedical \o m \o DefaultPharmacy),
     Dict(DefaultPatientTable, EveryCareRow, DefaultMedicationTable)>> :
     m \in SeqUpTo(MedicalMissingPool, MaxRules)}
  \cup
  {<<MappingFile(DefaultPatient \o DefaultMedical \o DefaultPharmacy \o x),
     Dict(DefaultPatientTable, DefaultCareTable, EveryMedicationRow)>> :
     x \in SeqUpTo(PharmacyMissingPool, MaxRules)}

InitMissing == \E input \in MissingFocus : InitRun(input[1], input[2])

SpecMissing == InitMissing /\ [][Next]_vars

\* ---- the source groups of the multi-source files: two label groups in
\* each order of their rules, with further rules before or after them (a
\* column only one group maps, a rule that makes a group span two tables,
\* a computed column), over tables that are absent, empty, filtered out
\* entirely, or hold rows.
MedicalMeds ==
  <<Rule("Medication_History", "PatientID", "medical_services", "patient_id", NaNName, "meds"),
    Rule("Medication_History", "DrugCode", "medical_services", "dx_cd_1", NaNName, "meds")>>

PharmacyCare ==
  <<Rule("Care_History", "PatientID", "pharmacy_data", "patient_id", NaNName, "care"),
    Rule("Care_History", "Code", "pharmacy_data", "rx_cd", NaNName, "care")>>

GroupOrders(a, b) == {a \o b, b \o a, <<a[1], b[1], b[2], a[2]>>, <<b[2], a[2], a[1], b[1]>>}

MedicalGroupExtras ==
  {Rule("Care_History", "Code", "medical_services", "note", NaNName, "care"),
   Rule("Medication_History", "DrugCode", "medical_services", "note", NaNName, "care"),
   Rule("Care_History", "Code", "medical_services", "dx_version_1", "determine_dx_version", "care"),
   Rule("Medication_History", "DrugCode", "medical_services", "flag", NaNName, "meds")}

PharmacyGroupExtras ==
  {Rule("Medication_History", "DrugCode", "pharmacy_data", "rx_fill_date", NaNName, "meds"),
   Rule("Care_History", "Code", "pharmacy_data", "note", NaNName, "meds"),
   Rule("Care_History", "Code", "pharmacy_data", "note", NaNName, "care"),
   Rule("Medication_History", "DrugCode", "pharmacy_data", "rx_code_type",
        "determine_rx_code_type", "meds")}

\* A table none of whose rows passes the filter.
FilteredCareTable == Table(CareColumns, <<<<NaN, Code1>>, <<<<"1">>, EmptyStr>>>>)

GroupDicts ==
  {Without(Dict(DefaultPatientTable, c, m), absent) :
     c \in {EveryCareRow, Table(CareColumns, <<>>), FilteredCareTable},
     m \in {EveryMedicationRow, NoColumns},
     absent \in {{}, {"Care_History"}, {"Medication_History"}}}

GroupsFocus ==
  {<<MappingFile(DefaultPatient \o rules \o DefaultPharmacy), dict>> :
     rules \in UNION {{e \o g, g \o e} :
                        e \in SeqUpTo(MedicalGroupExtras, MaxRules - 1),
                        g \in GroupOrders(DefaultMedical, MedicalMeds)},
     dict \in GroupDicts}
  \cup
  {<<MappingFile(DefaultPatient \o DefaultMedical \o rules), dict>> :
     rules \in UNION {{e \o g, g \o e} :
                        e \in SeqUpTo(PharmacyGroupExtras, MaxRules - 1),
                        g \in GroupOrders(DefaultPharmacy, PharmacyCare)},
     dict \in GroupDicts}

InitGroups == \E input \in GroupsFocus : InitRun(input[1], input[2])

SpecGroups == InitGroups /\ [][Next]_vars

\* ---- one transformation on its own: a table of one column "c", the
\* transformation named by any key, handed the column, the row labels, or a
\* column the table does not have.
TransformationValues ==
  {<<"M">>, <<"m">>, <<"F">>, <<"f">>, <<"1">>, <<"2">>, <<"0">>, <<"x">>, <<" ">>,
   <<"M", " ">>, <<" ", "\t">>, <<" ", "x">>, EmptyStr, NaN}

InitTransformation ==
  /\ pc = "idle"
  /\ mapping_file = MappingFile(<<>>)
  /\ input_data_dict = <<>>
  /\ mapping_df = None
  /\ patient_df = None
  /\ medical_df = None
  /\ pharmacy_df = None
  /\ generation_successful = TRUE
  /\ output_files_generated = <<>>
  /\ files = [t \in {"patient_data", "medical_services", "pharmacy_data"} |-> None]
  /\ error = NoError
  /\ events = <<>>
  /\ return_value = NoValue
  /\ worker = NoWorker
  /\ window = NoWindow
  /\ \E key \in TRANSFORMATIONS \cup {"no_such_function"},
        col \in {"c", "", "Missing"},
        vals \in SeqUpTo(TransformationValues, MaxLen) :
       call = [state |-> "ready", transform_key |-> key, source_col_name |-> col,
               source_df |-> Table(<<"c">>, [i \in 1..Len(vals) |-> <<vals[i]>>]),
               result |-> <<>>]

SpecTransformation == InitTransformation /\ [][NextTransformation]_vars

\* ------------------------------------------------- ProcessingWorker.run
\* Python's None where a string can stand as well.
NoneName == "<None>"

InputKeys == {"Patient_Details", "Care_History", "Medication_History"}

\* The input files as they lie on disk, by path.
Disk(path) ==
  CASE path = "patient.csv" -> [state |-> "table", df |-> DefaultPatientTable]
    [] path = "care.csv" -> [state |-> "table", df |-> DefaultCareTable]
    [] path = "care2.csv" ->
         [state |-> "table", df |-> Table(<<"patientid", "code">>, <<<<<<"2">>, Code2>>>>)]
    [] path = "meds.csv" -> [state |-> "table", df |-> DefaultMedicationTable]
    [] path = "nokey.csv" -> [state |-> "table", df |-> Table(<<"Code">>, <<<<Code1>>>>)]
    [] path = "empty.csv" -> [state |-> "empty", df |-> NoColumns]
    [] path = "locked.csv" -> [state |-> "unreadable", df |-> NoColumns]
    [] OTHER -> [state |-> "missing", df |-> NoColumns]

\* dict[key] = value.
Put(dict, key, value) ==
  [x \in DOMAIN dict \cup {key} |-> IF x = key THEN value ELSE dict[x]]

\* The inner try of the loading loop without the check of the merge key.
LoadFileUnvalidated(config_key, file_path) ==
  LET file == Disk(file_path)
  IN  CASE file.state = "missing" ->
             [raised |-> TRUE, message |-> "File not found", df |-> NoColumns]
        [] file.state = "empty" -> [raised |-> FALSE, message |-> "", df |-> NoColumns]
        [] file.state = "unreadable" ->
             [raised |-> TRUE, message |-> "Error loading", df |-> NoColumns]
        [] OTHER -> [raised |-> FALSE, message |-> "", df |-> file.df]

\* The inner try of the loading loop for one item of input_files_dict:
\* pd.read_csv and the check of the merge key, then the except clauses.  A
\* missing file, a table without the merge key (Patient_Details excepted) and
\* any other error raise RuntimeError; an empty file is loaded as
\* pd.DataFrame() with a warning.
LoadFile(config_key, file_path) ==
  LET file == Disk(file_path)
  IN  CASE file.state = "missing" ->
             [raised |-> TRUE, message |-> "File not found", df |-> NoColumns]
        [] file.state = "empty" -> [raised |-> FALSE, message |-> "", df |-> NoColumns]
        [] file.state = "unreadable" ->
             [raised |-> TRUE, message |-> "Error loading", df |-> NoColumns]
        [] OTHER ->
             IF config_key # "Patient_Details" /\ ~HasCol(file.df, MERGE_KEY)
             THEN [raised |-> TRUE, message |-> "Data validation error", df |-> NoColumns]
             ELSE [raised |-> FALSE, message |-> "", df |-> file.df]

\* ProcessingWorker(input_files_dict, output_dir), run() about to start.  The
\* dict is the sequence of its items, in the order of insertion.
NewWorker(input_files_dict, output_dir) ==
  [pc |-> "loading", input_files_dict |-> input_files_dict, output_dir |-> output_dir,
   k |-> 1, loaded_data_dict |-> <<>>, success |-> FALSE, error_message |-> "",
   finished |-> <<>>]

EngineVars ==
  <<pc, mapping_file, input_data_dict, mapping_df, patient_df, medical_df, pharmacy_df,
    generation_successful, output_files_generated, files, error, events, call,
    return_value>>

\* One pass of `for config_key, file_path in self.input_files_dict.items()`.
\* A RuntimeError leaves the loop and the outer try: its handler keeps the
\* message, and the finally clause is next.
WorkerLoadFile ==
  /\ worker.pc = "loading"
  /\ worker.k <= Len(worker.input_files_dict)
  /\ LET item == worker.input_files_dict[worker.k]
         loaded == LoadFile(item[1], item[2])
     IN  worker' = IF loaded.raised
                   THEN [worker EXCEPT !.pc = "finally", !.error_message = loaded.message]
                   ELSE [worker EXCEPT !.k = @ + 1,
                                       !.loaded_data_dict = Put(@, item[1], loaded.df)]
  /\ UNCHANGED EngineVars
  /\ UNCHANGED window

\* After the loop: the check of the number of loaded tables, then the call
\* processing.generate_acg_files(loaded_data_dict, self.output_dir).
WorkerCallEngine ==
  /\ worker.pc = "loading"
  /\ worker.k > Len(worker.input_files_dict)
  /\ IF Cardinality(DOMAIN worker.loaded_data_dict) # Len(worker.input_files_dict)
     THEN /\ worker' = [worker EXCEPT !.pc = "finally",
                                      !.error_message = "Mismatch between expected files and loaded files"]
          /\ UNCHANGED <<pc, input_data_dict>>
     ELSE /\ worker' = [worker EXCEPT !.pc = "engine"]
          /\ pc' = "load"
          /\ input_data_dict' = worker.loaded_data_dict
  /\ UNCHANGED <<mapping_file, mapping_df, patient_df, medical_df, pharmacy_df,
                 generation_successful, output_files_generated, files, error, events,
                 call, return_value>>
  /\ UNCHANGED window

\* generate_acg_files has returned (success = True) or an exception has left
\* it: `except RuntimeError` and `except Exception` both keep str(e).
WorkerEngineLeft ==
  /\ worker.pc = "engine"
  /\ pc \in {"returned", "raised"}
  /\ worker' = IF pc = "returned"
               THEN [worker EXCEPT !.pc = "finally", !.success = TRUE]
               ELSE [worker EXCEPT !.pc = "finally", !.error_message = error.message]
  /\ UNCHANGED EngineVars
  /\ UNCHANGED window

\* finally: self.finished.emit(success, error_message,
\*                             self.output_dir if success else None).
FinishedSignal(success, error_message, output_dir) ==
  [success |-> success, error_message |-> error_message,
   output_dir |-> IF success THEN output_dir ELSE NoneName]

WorkerFinally ==
  /\ worker.pc = "finally"
  /\ worker' = [worker EXCEPT
                  !.pc = "done",
                  !.finished = Append(@, FinishedSignal(worker.success, worker.error_message,
                                                        worker.output_dir))]
  /\ UNCHANGED EngineVars
  /\ UNCHANGED window

NextWorker ==
  \/ WorkerLoadFile
  \/ WorkerCallEngine
  \/ LoadMapping
  \/ RunPatient
  \/ SavePatient
  \/ RunMedical
  \/ SaveMedical
  \/ RunPharmacy
  \/ SavePharmacy
  \/ Finish
  \/ WorkerEngineLeft
  \/ WorkerFinally

\* ---- one worker on every kind of input file, in two orders of the dict and
\* with a type left out, over a mapping that loads, one that is missing and
\* one whose medical rules lack dx_cd_1.
WorkerPaths(config_key) ==
  CASE config_key = "Patient_Details" -> {"patient.csv", "gone.csv", "empty.csv", "nokey.csv"}
    [] config_key = "Care_History" -> {"care.csv", "nokey.csv", "locked.csv", "empty.csv"}
    [] OTHER -> {"meds.csv", "gone.csv", "nokey.csv"}

WorkerKeyOrders ==
  {<<"Patient_Details", "Care_History", "Medication_History">>,
   <<"Medication_History", "Care_History", "Patient_Details">>,
   <<"Patient_Details", "Care_History">>}

WorkerDicts ==
  UNION {{[i \in 1..Len(keys) |-> <<keys[i], choice[keys[i]]>>] :
            choice \in [InputKeys -> UNION {WorkerPaths(k) : k \in InputKeys}]} :
         keys \in WorkerKeyOrders}

WorkerMappings ==
  {MappingFile(DefaultPatient \o DefaultMedical \o DefaultPharmacy),
   MappingFile(DefaultPatient \o SubSeq(DefaultMedical, 1, 1) \o DefaultPharmacy),
   [state |-> "missing", header |-> {}, rows |-> <<>>]}

InitWorker ==
  /\ pc = "not_called"
  /\ mapping_file \in WorkerMappings
  /\ input_data_dict = <<>>
  /\ mapping_df = None
  /\ patient_df = None
  /\ medical_df = None
  /\ pharmacy_df = None
  /\ generation_successful = TRUE
  /\ output_files_generated = <<>>
  /\ files = [t \in {"patient_data", "medical_services", "pharmacy_data"} |-> None]
  /\ error = NoError
  /\ events = <<>>
  /\ return_value = NoValue
  /\ call = [state |-> "idle"]
  /\ \E dict \in WorkerDicts :
       /\ \A i \in 1..Len(dict) : dict[i][2] \in WorkerPaths(dict[i][1])
       /\ worker = NewWorker(dict, "out")
  /\ window = NoWindow

SpecWorker == InitWorker /\ [][NextWorker]_vars

\* The positions of generate_acg_files from which it goes on by itself.
EnginePositions ==
  {"load", "patient", "save_patient", "medical", "save_medical", "pharmacy",
   "save_pharmacy", "finish"}

\* generate_acg_files moves on from where it stands.
EngineRuns ==
  /\ pc \in EnginePositions
  /\ pc' \in (EnginePositions \cup {"returned", "raised"}) \ {pc}

\* run() moves on from where it stands.
WorkerRuns == WorkerLoadFile \/ WorkerCallEngine \/ WorkerEngineLeft \/ WorkerFinally

\* run() is the body of a thread that nothing blocks, and the call of
\* generate_acg_files in it has no loop without an end: wherever the thread
\* stands, it takes its next step in the end.
SpecWorkerFair == SpecWorker /\ WF_vars(WorkerRuns) /\ WF_pc(EngineRuns)

\* ------------------------------------------------------------ MainWindow
\* The most worker threads one window starts.
MaxWorkers == 3

expected_file_count == Cardinality(InputKeys)

\* config.INPUT_FILE_COLUMNS, with the columns the tables here have.
config_column_sets(key) ==
  CASE key = "Patient_Details" -> Range(PatientColumns)
    [] key = "Care_History" -> Range(CareColumns)
    [] OTHER -> Range(MedicationColumns)

\* str.lower() of a column name.
LowerName(name) ==
  CASE name = "PatientID" -> "patientid"
    [] name = "GenderCode" -> "gendercode"
    [] name = "Code" -> "code"
    [] name = "DrugCode" -> "drugcode"
    [] OTHER -> name

\* The dataset key whose configured columns are, case aside, those of the
\* file's header; None when the header cannot be read or matches no key.
_identify_file_type(filepath) ==
  LET file == Disk(filepath)
      file_columns_lower == {LowerName(c) : c \in Range(file.df.columns)}
      possible_matches ==
        {key \in InputKeys :
           file_columns_lower = {LowerName(c) : c \in config_column_sets(key)}}
  IN  IF file.state = "table" /\ Cardinality(possible_matches) = 1
      THEN CHOOSE key \in possible_matches : TRUE
      ELSE NoneName

\* QThread.isRunning() of self.worker: run() has not returned yet.
isRunning(w, id) == w.threads[id].state \in {"running", "emitted"}

\* The buttons' enabled states, set from the window's fields and from what
\* isRunning() reads at that moment.
update_ui_state(w) ==
  LET idle == w.worker = 0 \/ ~isRunning(w, w.worker)
  IN  [w EXCEPT
         !.process_enabled =
            /\ Cardinality(DOMAIN w.added_files) = expected_file_count
            /\ expected_file_count >= 0
            /\ w.output_dir # ""
            /\ w.last_successful_output_dir = NoneName
            /\ idle,
         !.open_folder_enabled = (w.last_successful_output_dir # NoneName /\ idle),
         !.can_modify_inputs = (idle /\ expected_file_count >= 0)]

\* One call of _process_file_addition: the window after it and what the call
\* returned.  reply is the answer to "Replace File?".
_process_file_addition(w, path, reply) ==
  LET file_key == _identify_file_type(path)
  IN  IF file_key = NoneName THEN [window |-> w, changed |-> FALSE]
      ELSE IF file_key \in DOMAIN w.added_files /\ ~reply
      THEN [window |-> w, changed |-> FALSE]
      ELSE [window |-> [w EXCEPT !.added_files = Put(@, file_key, path)], changed |-> TRUE]

\* What the operating system takes for a .csv file, and for a directory.
IsCsvFile(path) == path # "notes.txt"
IsDir(dir) == dir \in {"out", "out2"}

\* The loop of dropEvent over the dropped urls; reply is the user's answer
\* to every "Replace File?" of the drop.
RECURSIVE DropUrls(_, _, _, _, _)
DropUrls(w, urls, reply, k, files_changed) ==
  IF k > Len(urls) THEN [window |-> w, changed |-> files_changed]
  ELSE IF ~IsCsvFile(urls[k]) THEN DropUrls(w, urls, reply, k + 1, files_changed)
  ELSE LET added == _process_file_addition(w, urls[k], reply)
       IN  DropUrls(added.window, urls, reply, k + 1, files_changed \/ added.changed)

\* "the inputs have changed" for the history field that the claims read.
InputsChanged(w) ==
  [w EXCEPT !.last_successful_output_dir = NoneName, !.unchanged_since_success = FALSE]

DropPaths == {"patient.csv", "care.csv", "care2.csv", "meds.csv", "nokey.csv", "notes.txt"}

\* One file at a time, or several in one drop.
DropLists ==
  {<<path>> : path \in DropPaths}
  \cup {<<"patient.csv", "meds.csv">>, <<"care.csv", "care2.csv">>, <<"notes.txt", "care.csv">>}

WindowRest ==
  <<pc, mapping_file, input_data_dict, mapping_df, patient_df, medical_df, pharmacy_df,
    generation_successful, output_files_generated, files, error, events, call,
    return_value, worker>>

\* Files dropped on the window, which accepts drops whatever its buttons'
\* states are.
dropEvent ==
  /\ window.open
  /\ \E urls \in DropLists, reply \in BOOLEAN :
       LET dropped == DropUrls(window, urls, reply, 1, FALSE)
       IN  window' = IF dropped.changed
                     THEN update_ui_state(InputsChanged(dropped.window))
                     ELSE window
  /\ UNCHANGED WindowRest

\* The "Browse for File..." button, when it is enabled; "" is a cancelled dialog.
browse_for_file ==
  /\ window.open
  /\ window.can_modify_inputs
  /\ \E filepath \in DropPaths \cup {""}, reply \in BOOLEAN :
       LET added == _process_file_addition(window, filepath, reply)
       IN  window' = IF filepath # "" /\ added.changed
                     THEN update_ui_state(InputsChanged(added.window))
                     ELSE window
  /\ UNCHANGED WindowRest

\* The "X" button of a registered file; the file list is never disabled.
remove_input_file ==
  /\ window.open
  /\ \E file_key_to_remove \in DOMAIN window.added_files :
       window' = update_ui_state(InputsChanged(
                   [window EXCEPT !.added_files =
                      IF DOMAIN @ = {file_key_to_remove} THEN <<>>
                      ELSE Without(@, {file_key_to_remove})]))
  /\ UNCHANGED WindowRest

\* The "Change..." button, when it is enabled; "" is a cancelled dialog.
select_output_directory ==
  /\ window.open
  /\ window.can_modify_inputs
  /\ \E new_dir \in {"", "out", "out2"} :
       window' = IF new_dir # "" /\ new_dir # window.output_dir
                 THEN update_ui_state(InputsChanged([window EXCEPT !.output_dir = new_dir]))
                 ELSE window
  /\ UNCHANGED WindowRest

\* A click on the Process button, which takes an enabled button.  The new
\* thread holds a copy of added_files; started_with is history.
start_processing ==
  /\ window.open
  /\ window.process_enabled
  /\ Len(window.threads) < MaxWorkers
  /\ window' =
       IF Cardinality(DOMAIN window.added_files) # expected_file_count
            \/ expected_file_count < 0
       THEN window
       ELSE IF window.output_dir = "" \/ ~IsDir(window.output_dir) THEN window
       ELSE LET thread == [state |-> "running", input_files_dict |-> window.added_files,
                           output_dir |-> window.output_dir,
                           started_with |-> window.added_files]
            IN  update_ui_state(
                  [window EXCEPT !.last_successful_output_dir = NoneName,
                                 !.threads = Append(@, thread),
                                 !.worker = Len(window.threads) + 1])
  /\ UNCHANGED WindowRest

\* run() of one thread, up to and including the emit of its finally clause:
\* a file that fails to load makes it a failure, and otherwise
\* generate_acg_files returns or raises.  The signal is queued for the
\* window's thread.
WorkerThreadRun ==
  /\ window.open
  /\ \E id \in 1..Len(window.threads), returned \in BOOLEAN :
       /\ window.threads[id].state = "running"
       /\ LET dict == window.threads[id].input_files_dict
              load_failed == \E key \in DOMAIN dict : LoadFile(key, dict[key]).raised
              success == ~load_failed /\ returned
          IN  window' =
                [window EXCEPT
                   !.threads[id].state = "emitted",
                   !.queue = Append(@, FinishedSignal(success, IF success THEN "" ELSE "error",
                                                      window.threads[id].output_dir))]
  /\ UNCHANGED WindowRest

\* run() has returned: isRunning() is false from here on, and nothing reads
\* the fields of the thread any more.
WorkerThreadExit ==
  /\ window.open
  /\ \E id \in 1..Len(window.threads) :
       /\ window.threads[id].state = "emitted"
       /\ window' = [window EXCEPT !.threads[id] =
                       [state |-> "exited", input_files_dict |-> <<>>, output_dir |-> "",
                        started_with |-> <<>>]]
  /\ UNCHANGED WindowRest

\* The slot of the finished signal, on the window's thread, from its first
\* update_ui_state to its last, the modal dialog in between closed by the user.
processing_finished ==
  /\ window.open
  /\ window.queue # <<>>
  /\ LET signal == Head(window.queue)
         shown == update_ui_state(window)
         handled ==
           IF signal.success /\ signal.output_dir \notin {NoneName, ""}
           THEN [shown EXCEPT !.last_successful_output_dir = signal.output_dir,
                              !.added_files = <<>>,
                              !.unchanged_since_success = TRUE]
           ELSE [shown EXCEPT !.last_successful_output_dir = NoneName]
     IN  window' = update_ui_state([handled EXCEPT !.worker = 0, !.queue = Tail(@)])
  /\ UNCHANGED WindowRest

NextWindow ==
  \/ browse_for_file
  \/ dropEvent
  \/ remove_input_file
  \/ select_output_directory
  \/ start_processing
  \/ WorkerThreadRun
  \/ WorkerThreadExit
  \/ processing_finished

\* MainWindow() as __init__ leaves it: no file, the default output directory.
InitWindow ==
  /\ pc = "not_called"
  /\ mapping_file = MappingFile(DefaultPatient \o DefaultMedical \o DefaultPharmacy)
  /\ input_data_dict = <<>>
  /\ mapping_df = None
  /\ patient_df = None
  /\ medical_df = None
  /\ pharmacy_df = None
  /\ generation_successful = TRUE
  /\ output_files_generated = <<>>
  /\ files = [t \in {"patient_data", "medical_services", "pharmacy_data"} |-> None]
  /\ error = NoError
  /\ events = <<>>
  /\ return_value = NoValue
  /\ call = [state |-> "idle"]
  /\ worker = NoWorker
  /\ window = update_ui_state(
                [open |-> TRUE, added_files |-> <<>>, output_dir |-> "out",
                 last_successful_output_dir |-> NoneName, worker |-> 0,
                 process_enabled |-> FALSE, open_folder_enabled |-> FALSE,
                 can_modify_inputs |-> FALSE, threads |-> <<>>, queue |-> <<>>,
                 unchanged_since_success |-> FALSE])

SpecWindow == InitWindow /\ [][NextWindow]_vars

\* ================================================================ claims
TargetFiles == {"patient_data", "medical_services", "pharmacy_data"}

\* generate_acg_files has got past the load of the mapping.
MappingLoaded == pc # "load" /\ ~(pc = "raised" /\ events = <<"load">>)

Ended == pc \in {"returned", "raised"}

Attempted(generator) == generator \in Range(events)

Written(target) == files[target] # None

\* C1: once the mapping is loaded, generate_acg_files reports failure (an
\* exception leaves it) only after it has attempted all three generators:
\* the patient, the medical and the pharmacy generator.
C1_FailureOnlyAfterAllGenerators ==
  (pc = "raised" /\ MappingLoaded) => \A g \in TargetFiles : Attempted(g)

\* C2: pharmacy output is optional: a run in which the patient-data and the
\* medical-services files were produced and written returns without raising,
\* whatever happens in the pharmacy generation.
C2_PharmacyNeverFailsTheRun ==
  (Ended /\ Written("patient_data") /\ Written("medical_services")) =>
    /\ pc = "returned"
    /\ Written("pharmacy_data") => (pharmacy_df # None /\ ~IsEmpty(pharmacy_df))

\* The mapping specification is missing, unreadable, empty, or lacks one of
\* the four required columns.
BadMapping ==
  \/ mapping_file.state \in {"missing", "unreadable", "empty"}
  \/ ~(required_cols \subseteq mapping_file.header)

\* C3: with the mapping specification missing, unreadable, empty or lacking a
\* required column, generate_acg_files raises the configuration error (the
\* RuntimeError of the load) before any generator is invoked and before any
\* output file is written.
C3_ConfigErrorBeforeGeneration ==
  (BadMapping /\ pc # "load") =>
    /\ pc = "raised"
    /\ error.type = "RuntimeError"
    /\ error.message \in {"Mapping file not found", "Invalid mapping file",
                          "Failed to load mapping file"}
    /\ events = <<"load">>
    /\ \A t \in TargetFiles : ~Attempted(t) /\ ~Written(t)
    /\ output_files_generated = <<>>

\* C3 witness: a run aborted at the load of a mapping that lacks a required
\* column.
C3_Witness ==
  /\ pc = "raised"
  /\ mapping_file.state = "table"
  /\ ~(required_cols \subseteq mapping_file.header)
  /\ error.message = "Invalid mapping file"

\* C4: a mapping specification that has the four required columns loads even
\* when the TransformationFunction column or the SourceLabel column is
\* absent, and every rule then has the empty string in the absent field.
C4_OptionalColumnsDefaultToEmpty ==
  (mapping_file.state = "table" /\ required_cols \subseteq mapping_file.header /\ pc # "load") =>
    /\ MappingLoaded
    /\ \A i \in 1..Len(mapping_df) :
         /\ "TransformationFunction" \notin mapping_file.header
              => mapping_df[i].TransformationFunction = ""
         /\ "SourceLabel" \notin mapping_file.header => mapping_df[i].SourceLabel = ""

\* A value that is neither missing nor the empty string.
Present(v) == ~isna(v) /\ v # EmptyStr

\* C5: every row of the medical-services output has a patient_id and a
\* dx_cd_1 that are neither empty nor missing and, when the output has a
\* dx_version_1 column, a dx_version_1 that is not empty.
C5_MedicalRowsHaveEssentials ==
  medical_df # None =>
    \A i \in 1..NRows(medical_df) :
      /\ HasCol(medical_df, "patient_id") /\ Present(Col(medical_df, "patient_id")[i])
      /\ HasCol(medical_df, "dx_cd_1") /\ Present(Col(medical_df, "dx_cd_1")[i])
      /\ HasCol(medical_df, "dx_version_1") => Col(medical_df, "dx_version_1")[i] # EmptyStr

\* C5 witness: a medical output with a dx_version_1 column that kept some of
\* the rows of a Care_History table and dropped others, among them one whose
\* PatientID is missing.
C5_Witness ==
  /\ medical_df # None
  /\ HasCol(medical_df, "dx_version_1")
  /\ NRows(medical_df) >= 1
  /\ NRows(medical_df) < NRows(input_data_dict["Care_History"])
  /\ \E i \in 1..NRows(input_data_dict["Care_History"]) :
       isna(Col(input_data_dict["Care_History"], "PatientID")[i])

\* C6: every row of the pharmacy-data output has a patient_id and an rx_cd
\* that are neither empty nor missing.
C6_PharmacyRowsHaveEssentials ==
  pharmacy_df # None =>
    \A i \in 1..NRows(pharmacy_df) :
      /\ HasCol(pharmacy_df, "patient_id") /\ Present(Col(pharmacy_df, "patient_id")[i])
      /\ HasCol(pharmacy_df, "rx_cd") /\ Present(Col(pharmacy_df, "rx_cd")[i])

\* C6 witness: a pharmacy output that kept some rows of a Medication_History
\* table and dropped others, among them one whose DrugCode is empty.
C6_Witness ==
  /\ pharmacy_df # None
  /\ NRows(pharmacy_df) >= 1
  /\ NRows(pharmacy_df) < NRows(input_data_dict["Medication_History"])
  /\ \E i \in 1..NRows(input_data_dict["Medication_History"]) :
       Col(input_data_dict["Medication_History"], "DrugCode")[i] = EmptyStr

\* The rows of a Patient_Details table that carry the merge-key value k, and
\* the first of them.
RowsWithKey(table, k) == {i \in 1..NRows(table) : Col(table, MERGE_KEY)[i] = k}
FirstWithKey(table, k) ==
  CHOOSE i \in RowsWithKey(table, k) : \A j \in RowsWithKey(table, k) : i <= j

\* The table cut down to the first row of each merge-key value.
FirstOccurrences(table) ==
  TakeRows(table, PosSeq({FirstWithKey(table, k) : k \in Range(Col(table, MERGE_KEY))}))

\* C7: the patient-data output has exactly one row for every merge-key value
\* of the Patient_Details table, that row was made from the first input row
\* carrying the key, and its values are those the generator gives for the
\* table of the first occurrences alone.
C7_PatientKeepsFirstOccurrence ==
  patient_df # None =>
    LET table == input_data_dict["Patient_Details"]
    IN  /\ NRows(patient_df) = Cardinality(Range(Col(table, MERGE_KEY)))
        /\ \A k \in Range(Col(table, MERGE_KEY)) :
             /\ Cardinality({i \in 1..NRows(patient_df) :
                               patient_df.origin[i] \in RowsWithKey(table, k)}) = 1
             /\ \E i \in 1..NRows(patient_df) : patient_df.origin[i] = FirstWithKey(table, k)
        /\ patient_df.data =
             _generate_patient_data(
               [input_data_dict EXCEPT !["Patient_Details"] = FirstOccurrences(table)],
               mapping_df).data

\* C7 witness: a patient output made from a table in which one merge key
\* appears twice, with different values in the two rows.
C7_Witness ==
  /\ patient_df # None
  /\ NRows(patient_df) = 2
  /\ NRows(input_data_dict["Patient_Details"]) = 3
  /\ HasCol(patient_df, "sex")

\* C8: the patient-data output always begins with a column named patient_id;
\* when no rule targets patient_id or the merge key, that first column
\* carries the merge-key values of the (de-duplicated) table verbatim.
C8_PatientIdColumnFirst ==
  patient_df # None =>
    /\ Len(patient_df.columns) >= 1
    /\ patient_df.columns[1] = "patient_id"
    /\ (\A i \in 1..Len(mapping_df) :
          mapping_df[i].TargetACGFile = "patient_data"
            => mapping_df[i].TargetACGColumn \notin {"patient_id", MERGE_KEY})
         => patient_df.data[1] =
              Col(FirstOccurrences(input_data_dict["Patient_Details"]), MERGE_KEY)

\* The source column a rule names, as the generators look it up.
SourceColumn(rule) == StripName(rule.InputColumn)

\* A rule whose source column exists in its source table and whose
\* transformation is empty.
IsDirectCopy(rule) ==
  /\ rule.TransformationFunction = ""
  /\ ~IsBlankName(rule.InputColumn)
  /\ rule.InputConfigKey \in DOMAIN input_data_dict
  /\ HasCol(input_data_dict[rule.InputConfigKey], SourceColumn(rule))

\* The name under which a rule's target column stands in the output (the
\* patient generator renames a target column PatientID to patient_id).
OutputColumn(df, rule) ==
  IF HasCol(df, rule.TargetACGColumn) THEN rule.TargetACGColumn ELSE "patient_id"

\* Every row of the patient output holds, in the rule's target column, the
\* value of the rule's source column in the input row it was made from.
PatientCopied(rule) ==
  \A i \in 1..NRows(patient_df) :
    Col(patient_df, OutputColumn(patient_df, rule))[i] =
      Col(input_data_dict["Patient_Details"], SourceColumn(rule))[patient_df.origin[i]]

\* The same for the rows a multi-source output made under the rule's label.
SourceCopied(df, rule) ==
  \A i \in 1..NRows(df) :
    df.origin[i][1] = rule.SourceLabel =>
      Col(df, rule.TargetACGColumn)[i] =
        Col(input_data_dict[rule.InputConfigKey], SourceColumn(rule))[df.origin[i][2]]

\* The patient rules the loop assigns a column for.
PatientWrites(rule) ==
  rule.InputConfigKey = "Patient_Details" \/ IsBlankName(rule.InputColumn)

\* No later rule of the same group assigns the target column of rule k.
PatientLastWriter(rules, k) ==
  \A m \in (k + 1)..Len(rules) :
    PatientWrites(rules[m]) => rules[m].TargetACGColumn # rules[k].TargetACGColumn

SourceLastWriter(rules, k) ==
  \A m \in (k + 1)..Len(rules) :
    rules[m].SourceLabel = rules[k].SourceLabel
      => rules[m].TargetACGColumn # rules[k].TargetACGColumn

PatientMapping == RulesWhere(mapping_df, "TargetACGFile", "patient_data")
MedicalMapping == RulesWhere(mapping_df, "TargetACGFile", "medical_services")
PharmacyMapping == RulesWhere(mapping_df, "TargetACGFile", "pharmacy_data")

\* C9 as stated: in all three generators, for every rule whose source column
\* exists in its source table and whose transformation is empty, each
\* emitted row holds in the target column the source column's value of the
\* input row that produced it.
C9_DirectCopyIdentity_AsStated ==
  /\ patient_df # None =>
       \A k \in 1..Len(PatientMapping) :
         (IsDirectCopy(PatientMapping[k]) /\ PatientMapping[k].InputConfigKey = "Patient_Details")
           => PatientCopied(PatientMapping[k])
  /\ medical_df # None =>
       \A k \in 1..Len(MedicalMapping) :
         IsDirectCopy(MedicalMapping[k]) => SourceCopied(medical_df, MedicalMapping[k])
  /\ pharmacy_df # None =>
       \A k \in 1..Len(PharmacyMapping) :
         IsDirectCopy(PharmacyMapping[k]) => SourceCopied(pharmacy_df, PharmacyMapping[k])

\* C9: the identity of direct copies holds, in all three generators, for
\* every rule whose source column exists in its source table, whose
\* transformation is empty, and whose target column no later rule of the
\* same group (the patient rules; the rules of one source label) assigns:
\* each emitted row holds in the target column the source column's value of
\* the input row that produced it, unchanged.
C9_DirectCopyIdentity ==
  /\ patient_df # None =>
       \A k \in 1..Len(PatientMapping) :
         (/\ IsDirectCopy(PatientMapping[k])
          /\ PatientMapping[k].InputConfigKey = "Patient_Details"
          /\ PatientLastWriter(PatientMapping, k))
           => PatientCopied(PatientMapping[k])
  /\ medical_df # None =>
       \A k \in 1..Len(MedicalMapping) :
         (IsDirectCopy(MedicalMapping[k]) /\ SourceLastWriter(MedicalMapping, k))
           => SourceCopied(medical_df, MedicalMapping[k])
  /\ pharmacy_df # None =>
       \A k \in 1..Len(PharmacyMapping) :
         (IsDirectCopy(PharmacyMapping[k]) /\ SourceLastWriter(PharmacyMapping, k))
           => SourceCopied(pharmacy_df, PharmacyMapping[k])

\* C9 witness: all three outputs have rows, each made by direct copies, and
\* the medical rules hold a direct copy that a later rule of its label
\* overwrites next to direct copies that stay.
C9_Witness ==
  /\ patient_df # None /\ NRows(patient_df) >= 1
  /\ medical_df # None /\ NRows(medical_df) >= 1
  /\ pharmacy_df # None /\ NRows(pharmacy_df) >= 1
  /\ \E k \in 1..Len(PatientMapping) :
       IsDirectCopy(PatientMapping[k]) /\ PatientLastWriter(PatientMapping, k)
  /\ \E k \in 1..Len(PharmacyMapping) :
       IsDirectCopy(PharmacyMapping[k]) /\ SourceLastWriter(PharmacyMapping, k)
  /\ \E k \in 1..Len(MedicalMapping) :
       IsDirectCopy(MedicalMapping[k]) /\ SourceLastWriter(MedicalMapping, k)
  /\ \E k \in 1..Len(MedicalMapping) :
       IsDirectCopy(MedicalMapping[k]) /\ ~SourceLastWriter(MedicalMapping, k)

\* What transform_sex is to give for one value.
ExpectedSex(v) ==
  IF v \in {<<"M">>, <<"m">>, <<"1">>} THEN <<"1">>
  ELSE IF v \in {<<"F">>, <<"f">>, <<"2">>} THEN <<"2">>
  ELSE <<"9">>

\* C10: transform_sex, applied to a column, gives a result of the column's
\* length whose every value is 1, 2 or 9: 1 for M, m and 1, 2 for F, f and 2,
\* and 9 for every other value, the empty string and a missing value included.
C10_TransformSexTotal ==
  (call.state = "done" /\ call.transform_key = "transform_sex" /\ call.source_col_name = "c") =>
    /\ Len(call.result) = NRows(call.source_df)
    /\ \A i \in 1..Len(call.result) :
         /\ call.result[i] \in {<<"1">>, <<"2">>, <<"9">>}
         /\ call.result[i] = ExpectedSex(Col(call.source_df, "c")[i])

\* C10 witness: transform_sex applied to a column holding a lower-case code
\* and a missing value.
C10_Witness ==
  /\ call.state = "done"
  /\ call.transform_key = "transform_sex"
  /\ call.source_col_name = "c"
  /\ Col(call.source_df, "c") = <<<<"f">>, NaN>>
  /\ call.result = <<<<"2">>, <<"9">>>>

\* A transformation was applied to the column "c" of the table.
AppliedToColumn(key) ==
  call.state = "done" /\ call.transform_key = key /\ call.source_col_name = "c"

\* A transformation was applied to the table's row labels (no source column).
AppliedToRowLabels(key) ==
  call.state = "done" /\ call.transform_key = key /\ call.source_col_name = ""

\* A code that is missing, empty, or made of whitespace only.
BlankCode(v) == isna(v) \/ \A i \in 1..Len(v) : IsSpace(v[i])

\* C11: determine_dx_version gives, row by row, S for a code that is
\* non-empty and not whitespace-only and the empty string for an empty,
\* whitespace-only or missing code; the result is as long as the input.
C11_DxVersionRowByRow ==
  AppliedToColumn("determine_dx_version") =>
    /\ Len(call.result) = NRows(call.source_df)
    /\ \A i \in 1..Len(call.result) :
         call.result[i] = IF BlankCode(Col(call.source_df, "c")[i]) THEN EmptyStr ELSE <<"S">>

\* C11 witness: determine_dx_version applied to a whitespace-only code and a
\* code with a leading blank.
C11_Witness ==
  /\ AppliedToColumn("determine_dx_version")
  /\ Col(call.source_df, "c") = <<<<" ", "\t">>, <<" ", "x">>>>
  /\ call.result = <<EmptyStr, <<"S">>>>

\* C12: set_zero_cost and set_zero_utilization give the string 0 for every
\* row, the result as long as the input, both when handed a column of values
\* and when handed the table's row identifiers.
C12_SetZeroAlwaysZero ==
  \A key \in {"set_zero_cost", "set_zero_utilization"} :
    (AppliedToColumn(key) \/ AppliedToRowLabels(key)) =>
      call.result = Const(NRows(call.source_df), <<"0">>)

\* A rule that names a transformation the registry does not hold.
UnknownTransform(rule) ==
  rule.TransformationFunction # "" /\ rule.TransformationFunction \notin TRANSFORMATIONS

HasUnknownTransform == \E i \in 1..Len(mapping_df) : UnknownTransform(mapping_df[i])

\* The loaded rules with the unknown transformation names taken out.
WithoutUnknownTransforms ==
  [i \in 1..Len(mapping_df) |->
     IF UnknownTransform(mapping_df[i])
     THEN [mapping_df[i] EXCEPT !.TransformationFunction = ""]
     ELSE mapping_df[i]]

\* The target columns of a file that a rule with an unknown transformation names.
UnknownTargets(file) ==
  {mapping_df[i].TargetACGColumn :
     i \in {k \in 1..Len(mapping_df) :
              UnknownTransform(mapping_df[k]) /\ mapping_df[k].TargetACGFile = file}}

\* The columns the row filter of the multi-source generators reads.
FilterColumns == {"patient_id", "dx_cd_1", "dx_version_1", "rx_cd"}

Produced(df) == df # None /\ ~IsEmpty(df)

\* The multi-source generator of a file and what the run holds of its result.
GeneratorOf(file, rules) ==
  IF file = "medical_services" THEN _generate_medical_services(input_data_dict, rules)
  ELSE _generate_pharmacy_data(input_data_dict, rules)

OutputOf(file) ==
  CASE file = "patient_data" -> patient_df
    [] file = "medical_services" -> medical_df
    [] OTHER -> pharmacy_df

\* The generator of the file has run and handed back its result.
Generated(file) ==
  /\ Attempted(file)
  /\ file # "patient_data" => ~GeneratorOf(file, mapping_df).raised

\* The output of a file, were the unknown transformation names not there.
UsualOutput(file) ==
  IF file = "patient_data" THEN _generate_patient_data(input_data_dict, WithoutUnknownTransforms)
  ELSE GeneratorOf(file, WithoutUnknownTransforms).value

\* The rules of the file's mapping whose column the generator assigns last
\* within their group, at position k.
LastWriter(file, rules, k) ==
  IF file = "patient_data"
  THEN rules[k].InputConfigKey = "Patient_Details" /\ PatientLastWriter(rules, k)
  ELSE SourceLastWriter(rules, k)

\* The rows of a file's output that the rule's group made.
RowsOfRule(file, df, rule) ==
  {i \in 1..NRows(df) : file = "patient_data" \/ df.origin[i][1] = rule.SourceLabel}

\* Every row the rule's group made holds a missing value or the empty string
\* in the rule's target column, and an empty field where the file is written.
ColumnEmpty(file, df, rule) ==
  \A i \in RowsOfRule(file, df, rule) :
    /\ Col(df, OutputColumn(df, rule))[i] \in {NaN, EmptyStr}
    /\ Written(file) =>
         files[file].rows[i][IndexOf(df.columns, OutputColumn(df, rule))] = EmptyStr

UnknownColumnsEmpty(file) ==
  (Generated(file) /\ OutputOf(file) # None) =>
    LET rules == RulesWhere(mapping_df, "TargetACGFile", file)
    IN  \A k \in 1..Len(rules) :
          (UnknownTransform(rules[k]) /\ LastWriter(file, rules, k))
            => ColumnEmpty(file, OutputOf(file), rules[k])

\* The columns no unknown transformation is named for are, row for row, what
\* they are without the unknown names.
OtherColumnsAsUsual(file) ==
  (Generated(file) /\ OutputOf(file) # None /\ UsualOutput(file) # None) =>
    LET df == OutputOf(file)
        u == UsualOutput(file)
    IN  /\ df.columns = u.columns
        /\ \A i \in 1..NRows(df) : \A j \in 1..NRows(u) :
             df.origin[i] = u.origin[j] =>
               \A c \in 1..Len(df.columns) :
                 df.columns[c] \notin UnknownTargets(file) => df.data[c][i] = u.data[c][j]

\* The file has the rows it has without the unknown names.
RowsAsUsual(file) ==
  Generated(file) =>
    /\ (OutputOf(file) = None) <=> (UsualOutput(file) = None)
    /\ OutputOf(file) # None => OutputOf(file).origin = UsualOutput(file).origin

\* The run, were the unknown names not there, produces both essential files
\* and lets no exception escape a generator.
UsualRunSucceeds ==
  /\ Produced(UsualOutput("patient_data"))
  /\ \A file \in {"medical_services", "pharmacy_data"} :
       ~GeneratorOf(file, WithoutUnknownTransforms).raised
  /\ Produced(UsualOutput("medical_services"))

\* C13 as stated: a rule naming a transformation that is not in the registry
\* never aborts the run (a run that succeeds without the unknown names
\* succeeds with them, failed writes aside), its target column is emitted
\* all-empty, and all other columns are generated as usual.
C13_UnknownTransformHarmless_AsStated ==
  (MappingLoaded /\ HasUnknownTransform) =>
    /\ (Ended /\ UsualRunSucceeds /\ "write_failed" \notin Range(events)) => pc = "returned"
    /\ \A file \in TargetFiles : UnknownColumnsEmpty(file) /\ OtherColumnsAsUsual(file)

\* No unknown transformation is named for a column the row filter reads.
UnknownOffFilter ==
  \A file \in {"medical_services", "pharmacy_data"} : UnknownTargets(file) \cap FilterColumns = {}

\* C13: a rule naming a transformation that is not in the registry raises
\* nothing (each generator lets an exception escape exactly when it does
\* without the unknown names); its target column is emitted all-empty (a
\* missing value in every row, an empty field in the file), and every other
\* column is, row for row, as usual.  When the column is none of those the row
\* filter reads (patient_id, dx_cd_1, dx_version_1, rx_cd of the medical and
\* pharmacy files), the rows are the usual rows too and a run that succeeds
\* without the unknown names succeeds with them.
C13_UnknownTransformHarmless ==
  (MappingLoaded /\ HasUnknownTransform) =>
    /\ \A file \in {"medical_services", "pharmacy_data"} :
         GeneratorOf(file, mapping_df).raised
           <=> GeneratorOf(file, WithoutUnknownTransforms).raised
    /\ \A file \in TargetFiles : UnknownColumnsEmpty(file) /\ OtherColumnsAsUsual(file)
    /\ UnknownOffFilter =>
         /\ \A file \in TargetFiles : RowsAsUsual(file)
         /\ (Ended /\ UsualRunSucceeds /\ "write_failed" \notin Range(events))
              => pc = "returned"

\* C13 witness: a run that returned, with a medical file written whose note
\* column, named by a rule with an unknown transformation, is empty in every
\* row next to a copied dx_cd_1.
C13_Witness ==
  /\ pc = "returned"
  /\ HasUnknownTransform
  /\ "note" \in UnknownTargets("medical_services")
  /\ Written("medical_services")
  /\ NRows(medical_df) >= 2
  /\ HasCol(medical_df, "note")
  /\ \A i \in 1..NRows(medical_df) :
       isna(Col(medical_df, "note")[i]) /\ Present(Col(medical_df, "dx_cd_1")[i])

\* The single run-level failure of generate_acg_files.
RunLevelFailure == RuntimeError("Failed to generate essential ACG files")

\* C14: row- and column-level problems never raise out of the engine; once the
\* mapping has loaded, the only exception generate_acg_files raises is the
\* single run-level failure.
C14_OnlyRunLevelFailure ==
  (MappingLoaded /\ pc = "raised") => error = RunLevelFailure

\* The set of paths of the files the run has written.
PathsWritten == Range(output_files_generated)

\* C15: when generate_acg_files does not raise, the caller receives the set of
\* file paths written.
C15_ReturnsPathsWritten ==
  pc = "returned" =>
    /\ return_value.kind = "paths"
    /\ return_value.paths = PathsWritten

NoSourceLabel(file) ==
  \A i \in 1..Len(mapping_df) :
    mapping_df[i].TargetACGFile = file => mapping_df[i].SourceLabel = ""

\* The position in the run after the save block of the file.
PastSave(file) ==
  \E i \in 1..Len(events) - 1 :
    events[i] = file /\ events[i + 1] \in {"write", "write_failed", "not_saved"}

\* C17: if the rules for medical_services (resp. pharmacy_data) contain no
\* non-empty source label, the file's generator produces no output and no
\* file is written; for medical_services the run is then marked failed and
\* ends in failure, for pharmacy_data the run still succeeds once both
\* essential files are written.
C17_NoSourceLabelNoOutput ==
  MappingLoaded =>
    /\ (NoSourceLabel("medical_services") /\ Attempted("medical_services")) =>
         /\ medical_df = None
         /\ ~Written("medical_services")
         /\ PastSave("medical_services") => ~generation_successful
         /\ pc # "returned"
    /\ (NoSourceLabel("pharmacy_data") /\ Attempted("pharmacy_data")) =>
         /\ pharmacy_df = None
         /\ ~Written("pharmacy_data")
         /\ PastSave("pharmacy_data") =>
              generation_successful = (Written("patient_data") /\ Written("medical_services"))
         /\ (Ended /\ Written("patient_data") /\ Written("medical_services"))
              => pc = "returned"

\* C17 witness, medical: the medical rules carry no label and the run ended
\* with the run-level failure, the patient file written.
C17_Witness ==
  /\ pc = "raised"
  /\ error = RunLevelFailure
  /\ NoSourceLabel("medical_services")
  /\ \E i \in 1..Len(mapping_df) : mapping_df[i].TargetACGFile = "medical_services"
  /\ Written("patient_data")
  /\ medical_df = None
  /\ "not_saved" \in Range(events)

\* A rule for a generated column: no source column, and a transformation that
\* sets a constant.
ZeroRule(rule) ==
  /\ IsBlankName(rule.InputColumn)
  /\ rule.TransformationFunction \in {"set_zero_cost", "set_zero_utilization"}

\* Every row the rule's group made holds 0 in the rule's target column.
ColumnZero(file, df, rule) ==
  \A i \in RowsOfRule(file, df, rule) : Col(df, OutputColumn(df, rule))[i] = <<"0">>

\* C18: in each of the three generators a rule with a blank or missing
\* source column and a registered transformation has the transformation
\* invoked on the row identifiers, so that set_zero_cost and
\* set_zero_utilization yield 0 in every emitted row.
C18_GeneratedColumnsZero ==
  MappingLoaded =>
    \A file \in TargetFiles :
      (Generated(file) /\ OutputOf(file) # None) =>
        LET rules == RulesWhere(mapping_df, "TargetACGFile", file)
        IN  \A k \in 1..Len(rules) :
              ( /\ ZeroRule(rules[k])
                /\ IF file = "patient_data" THEN PatientLastWriter(rules, k)
                   ELSE SourceLastWriter(rules, k) )
                => ColumnZero(file, OutputOf(file), rules[k])

\* The cross-column dependency of a file: the transformation that reads
\* another rule's source column, and the target column of that rule.
DependencyOf(file) == IF file = "medical_services" THEN MEDICAL ELSE PHARMACY

\* The rules of the rule's group that the dependency lookup finds.
DependencyRules(rules, rule, file) ==
  RulesWhere(RulesWhere(rules, "SourceLabel", rule.SourceLabel),
             "TargetACGColumn", DependencyOf(file).dep_target)

\* The rule's transformation is the dependent one of its file.
IsDependent(rule, file) == rule.TransformationFunction = DependencyOf(file).dep_transform

\* The source column of a rule resolves against the rule's table by the name
\* matching of the rule loop: not blank and, stripped, a column of the table.
Resolves(rule) ==
  /\ ~IsBlankName(rule.InputColumn)
  /\ rule.InputConfigKey \in DOMAIN input_data_dict
  /\ HasCol(input_data_dict[rule.InputConfigKey], SourceColumn(rule))

\* What the dependent transformation of the file makes of one code.
DependentValue(file, code) ==
  IF file = "medical_services" THEN get_version(code) ELSE get_rx_type(code)

\* Every row the rule's group made holds in the rule's target column the
\* dependent transformation of the dependency rule's source column.
ComputedFrom(file, df, rule, dep) ==
  \A i \in RowsOfRule(file, df, rule) :
    Col(df, rule.TargetACGColumn)[i] =
      DependentValue(file, Col(input_data_dict[dep.InputConfigKey],
                               SourceColumn(dep))[df.origin[i][2]])

\* C19: determine_dx_version is computed from the source column of the
\* group's dx_cd_1 rule, and determine_rx_code_type from that of its rx_cd
\* rule, whatever the dependent rule's own source column; the dependency
\* column is resolved against the table by the name matching the dx_cd_1 /
\* rx_cd rule itself uses.
C19_DependencyColumnUsed ==
  MappingLoaded =>
    \A file \in {"medical_services", "pharmacy_data"} :
      (Generated(file) /\ OutputOf(file) # None) =>
        LET rules == RulesWhere(mapping_df, "TargetACGFile", file)
        IN  \A k \in 1..Len(rules) :
              ( /\ IsDependent(rules[k], file)
                /\ SourceLastWriter(rules, k)
                /\ Len(DependencyRules(rules, rules[k], file)) > 0
                /\ Resolves(DependencyRules(rules, rules[k], file)[1]) )
                => ComputedFrom(file, OutputOf(file), rules[k],
                                DependencyRules(rules, rules[k], file)[1])

\* The group of the rule reaches the rule loop: one source table, present and
\* with rows.
GroupProcessed(rules, rule) ==
  /\ rule.SourceLabel # ""
  /\ Len(FieldUnique(RulesWhere(rules, "SourceLabel", rule.SourceLabel), "InputConfigKey")) = 1
  /\ rule.InputConfigKey \in DOMAIN input_data_dict
  /\ ~IsEmpty(input_data_dict[rule.InputConfigKey])

\* The column the dependency lookup hands to the dependent rule ("" for None).
ActualSourceCol(rules, rule, file) ==
  LET deps == DependencyRules(rules, rule, file)
  IN  IF Len(deps) = 0 THEN ""
      ELSE IF IsBlankName(deps[1].InputColumn)
              \/ ~HasCol(input_data_dict[rule.InputConfigKey], deps[1].InputColumn)
           THEN ""
           ELSE deps[1].InputColumn

\* `can_transform or is_generation_transform`: the rule loop calls the
\* dependent transformation for the rule.
Invoked(rules, rule, file) ==
  \/ /\ ActualSourceCol(rules, rule, file) # ""
     /\ HasCol(input_data_dict[rule.InputConfigKey], ActualSourceCol(rules, rule, file))
  \/ IsBlankName(rule.InputColumn)

\* The group has no dependency rule, or the source column of that rule is
\* empty or not a column of the source table.
Unresolved(rules, rule, file) ==
  \/ Len(DependencyRules(rules, rule, file)) = 0
  \/ ~Resolves(DependencyRules(rules, rule, file)[1])

\* C20: if the group has no dx_cd_1 (resp. rx_cd) rule, or the source column
\* of that rule is empty or not present in the source table, then
\* determine_dx_version (resp. determine_rx_code_type) is not invoked for the
\* group and the dependent target column is all-empty in the emitted rows,
\* whether or not the dependent rule's own source column is blank.
C20_UnresolvedDependencySkipped ==
  MappingLoaded =>
    \A file \in {"medical_services", "pharmacy_data"} :
      Generated(file) =>
        LET rules == RulesWhere(mapping_df, "TargetACGFile", file)
        IN  \A k \in 1..Len(rules) :
              ( /\ IsDependent(rules[k], file)
                /\ GroupProcessed(rules, rules[k])
                /\ Unresolved(rules, rules[k], file) )
                => /\ ~Invoked(rules, rules[k], file)
                   /\ (OutputOf(file) # None /\ SourceLastWriter(rules, k))
                        => ColumnEmpty(file, OutputOf(file), rules[k])

\* A rule that names a source column its table does not have.
MissingSource(rule) ==
  /\ ~IsBlankName(rule.InputColumn)
  /\ rule.InputConfigKey \in DOMAIN input_data_dict
  /\ ~HasCol(input_data_dict[rule.InputConfigKey], SourceColumn(rule))

\* The loaded rules, those with a missing source column turned into rules
\* without source column and without transformation.
WithoutMissingSources ==
  [i \in 1..Len(mapping_df) |->
     IF MissingSource(mapping_df[i])
     THEN [mapping_df[i] EXCEPT !.InputColumn = "", !.TransformationFunction = ""]
     ELSE mapping_df[i]]

\* The output of a file under the rules so changed.
OutputWithoutMissing(file) ==
  IF file = "patient_data" THEN _generate_patient_data(input_data_dict, WithoutMissingSources)
  ELSE GeneratorOf(file, WithoutMissingSources).value

\* Every row the rule's group made holds the empty string in the rule's
\* target column.
ColumnBlank(file, df, rule) ==
  \A i \in RowsOfRule(file, df, rule) : Col(df, OutputColumn(df, rule))[i] = EmptyStr

\* The rules with a missing source column that the property speaks of give an
\* empty column, and the file is what it is with those rules emptied.
MissingSourcesEmpty(file, dependent) ==
  (Generated(file) /\ OutputOf(file) # None) =>
    LET rules == RulesWhere(mapping_df, "TargetACGFile", file)
    IN  \A k \in 1..Len(rules) :
          ( /\ MissingSource(rules[k])
            /\ LastWriter(file, rules, k)
            /\ dependent \/ file = "patient_data" \/ ~IsDependent(rules[k], file) )
            => ColumnBlank(file, OutputOf(file), rules[k])

\* No rule with a missing source column names the transformation of its file
\* that reads another rule's column.
NoDependentMissing ==
  \A i \in 1..Len(mapping_df) :
    (MissingSource(mapping_df[i]) /\ mapping_df[i].TargetACGFile # "patient_data")
      => ~IsDependent(mapping_df[i], mapping_df[i].TargetACGFile)

\* C21 as stated: a rule whose non-empty source column is not a column of its
\* source table yields an all-empty target column, with or without a
\* transformation named, and the other rules and the rows of the source are
\* processed as they are without it.
C21_MissingSourceColumnEmpty_AsStated ==
  MappingLoaded =>
    \A file \in TargetFiles :
      /\ MissingSourcesEmpty(file, TRUE)
      /\ Generated(file) => OutputOf(file) = OutputWithoutMissing(file)

\* C21: a rule whose non-empty source column is not a column of its source
\* table yields an all-empty target column, with or without a transformation
\* named, unless the transformation is the one that reads another rule's
\* column (determine_dx_version in the medical file, determine_rx_code_type
\* in the pharmacy file), which is then computed from that rule's column; the
\* other rules and the rows of the source are processed as they are without
\* the rule's source column and transformation.
C21_MissingSourceColumnEmpty ==
  MappingLoaded =>
    \A file \in TargetFiles :
      /\ MissingSourcesEmpty(file, FALSE)
      /\ (Generated(file) /\ NoDependentMissing)
           => OutputOf(file) = OutputWithoutMissing(file)

\* C21 witness: the patient file is written with a sex column that a rule
\* with a registered transformation and a missing source column left empty
\* in every row, next to the identifiers of both patients.
C21_Witness ==
  /\ Written("patient_data")
  /\ \E k \in 1..Len(PatientMapping) :
       /\ MissingSource(PatientMapping[k])
       /\ PatientMapping[k].TransformationFunction = "transform_sex"
       /\ PatientLastWriter(PatientMapping, k)
  /\ NRows(patient_df) = 2
  /\ HasCol(patient_df, "sex") /\ HasCol(patient_df, "patient_id")
  /\ \A i \in 1..2 : Col(patient_df, "sex")[i] = EmptyStr /\ Present(Col(patient_df, "patient_id")[i])

\* The rules of a file, its source labels in order of first appearance, its
\* target columns, and the rules of one of its label groups.
FileRules(file) == RulesWhere(mapping_df, "TargetACGFile", file)

SourceLabels(file) == FieldUnique(FileRules(file), "SourceLabel")

FileColumns(file) == TargetColumns(FileRules(file), DependencyOf(file))

GroupRules(file, label) == RulesWhere(FileRules(file), "SourceLabel", label)

GroupKeys(file, label) == FieldUnique(GroupRules(file, label), "InputConfigKey")

\* The group spans more than one input table, names a table the caller did
\* not supply, or has an empty table.
GroupSkipped(file, label) ==
  \/ Len(GroupKeys(file, label)) > 1
  \/ GroupKeys(file, label)[1] \notin DOMAIN input_data_dict
  \/ IsEmpty(input_data_dict[GroupKeys(file, label)[1]])

\* What one pass of the loop makes of the group, taken alone.
GroupResult(file, label) ==
  ProcessSource(label, FileRules(file), FileColumns(file), input_data_dict, DependencyOf(file))

\* The result of one pass holds a row.
Yields(result) == ~result.raised /\ Produced(result.value)

\* The group, taken alone, yields a row.
GroupYields(file, label) == Yields(GroupResult(file, label))

\* The positions of the rows of a table that a label group made.
RowsOfLabel(df, label) == PosSeq({i \in 1..NRows(df) : df.origin[i][1] = label})

\* The generator of the file has just handed its result to the run.
JustGenerated(file) ==
  \/ file = "patient_data" /\ pc = "save_patient"
  \/ file = "medical_services" /\ pc = "save_medical"
  \/ file = "pharmacy_data" /\ pc = "save_pharmacy"

\* The rows of the group in the file are those the group yields taken alone.
GroupRowsKept(df, rows, result, skipped) ==
  IF skipped \/ ~Yields(result) THEN rows = <<>>
  ELSE /\ Pick(df.origin, rows) = result.value.origin
       /\ TakeRows(df, rows).data = result.value.data

\* C22: a label group that spans more than one input table, names a table
\* the caller did not supply, has an empty table, or has all its rows
\* filtered out contributes no rows and does not stop the other groups: each
\* other group has in the file the rows it yields taken alone, and the file
\* is produced whenever at least one group yields a row.
C22_SourceGroupIsolation ==
  \A file \in {"medical_services", "pharmacy_data"} :
    JustGenerated(file) =>
      LET labels == SourceLabels(file)
          results == [k \in 1..Len(labels) |-> GroupResult(file, labels[k])]
      IN  /\ (\E k \in 1..Len(labels) : Yields(results[k])) => Produced(OutputOf(file))
          /\ OutputOf(file) # None =>
               \A k \in 1..Len(labels) :
                 GroupRowsKept(OutputOf(file), RowsOfLabel(OutputOf(file), labels[k]),
                               results[k],
                               labels[k] = "" \/ GroupSkipped(file, labels[k]))

\* C22 witness: a medical file is written from the meds group alone while
\* the care group, first in the mapping, is skipped or filtered out.
C22_Witness ==
  /\ Written("medical_services")
  /\ SourceLabels("medical_services") = <<"care", "meds">>
  /\ ~GroupYields("medical_services", "care")
  /\ GroupYields("medical_services", "meds")
  /\ NRows(medical_df) >= 2
  /\ \A i \in 1..NRows(medical_df) : medical_df.origin[i][1] = "meds"

\* The columns a file forces to the front, in their order.
FrontColumns(file) ==
  IF file = "medical_services" THEN <<"patient_id", "dx_cd_1">>
  ELSE <<"patient_id", "rx_cd", "rx_fill_date">>

\* The elements of a sequence that satisfy neither membership, in order.
Outside(cols, set) == Pick(cols, PosSeq({i \in 1..Len(cols) : cols[i] \notin set}))

\* The column list of a file: the forced columns it maps, then its other
\* distinct target columns in the order the mapping first names them.
ExpectedColumns(file) ==
  LET mapped == FieldUnique(FileRules(file), "TargetACGColumn")
  IN  Pick(FrontColumns(file),
           PosSeq({i \in 1..Len(FrontColumns(file)) : FrontColumns(file)[i] \in Range(mapped)}))
      \o Outside(mapped, Range(FrontColumns(file)))

\* The target columns the rules of a group name.
GroupTargets(file, label) ==
  {GroupRules(file, label)[i].TargetACGColumn : i \in 1..Len(GroupRules(file, label))}

\* C23: every per-source result and the final table of a multi-source file
\* have exactly the file-wide distinct target columns in first-seen mapping
\* order, with patient_id first and dx_cd_1 second for medical_services, and
\* patient_id, rx_cd, rx_fill_date first, second and third for pharmacy_data;
\* a target column that a label group does not map is present and empty in
\* the rows of that group.
C23_ColumnOrder ==
  \A file \in {"medical_services", "pharmacy_data"} :
    (JustGenerated(file) /\ OutputOf(file) # None) =>
      LET df == OutputOf(file)
          labels == SourceLabels(file)
      IN  /\ df.columns = ExpectedColumns(file)
          /\ \A p \in 1..Len(FrontColumns(file)) :
               HasCol(df, FrontColumns(file)[p]) => df.columns[p] = FrontColumns(file)[p]
          /\ \A k \in 1..Len(labels) :
               /\ GroupYields(file, labels[k])
                    => GroupResult(file, labels[k]).value.columns = ExpectedColumns(file)
               /\ \A c \in Range(df.columns) \ GroupTargets(file, labels[k]) :
                    \A i \in 1..NRows(df) :
                      df.origin[i][1] = labels[k] => Col(df, c)[i] = EmptyStr

\* C23 witness: a pharmacy file of two groups whose mapping names rx_cd and
\* rx_fill_date before patient_id; the care group does not map rx_fill_date
\* and has it empty in its rows.
C23_Witness ==
  /\ Written("pharmacy_data")
  /\ FieldUnique(FileRules("pharmacy_data"), "TargetACGColumn")[1] \in {"rx_cd", "rx_fill_date"}
  /\ pharmacy_df.columns = <<"patient_id", "rx_cd", "rx_fill_date">>
  /\ \E i, j \in 1..NRows(pharmacy_df) :
       /\ pharmacy_df.origin[i][1] = "care" /\ Col(pharmacy_df, "rx_fill_date")[i] = EmptyStr
       /\ pharmacy_df.origin[j][1] = "meds" /\ Present(Col(pharmacy_df, "rx_fill_date")[j])

\* The frame of a group before the filter: the columns of its rules, the
\* target columns it lacks, in the order of the file.
Unfiltered(file, label) ==
  LET source_df == input_data_dict[GroupKeys(file, label)[1]]
  IN  Tagged(Select(AddMissing(SourceRules(NewFrame(source_df), GroupRules(file, label), 1,
                                           source_df, DependencyOf(file)),
                               FileColumns(file), 1),
                    FileColumns(file)),
             label)

\* The filter conditions of a file on one row of a group's frame: the
\* required columns neither missing nor empty and, in the medical file, a
\* dx_version_1 that is not the empty string.
PassesFilter(file, u, r) ==
  /\ \A c \in Range(DependencyOf(file).required_subset) : Present(Col(u, c)[r])
  /\ (file = "medical_services" /\ HasCol(u, "dx_version_1"))
       => AsStr(Col(u, "dx_version_1")[r]) # EmptyStr

\* The rows of the group in the file are the rows of the group's frame that
\* satisfy every filter condition, all of them and in the order of the
\* source table.
SurvivorsKept(file, df, rows, u) ==
  LET pass == PosSeq({r \in 1..NRows(u) : PassesFilter(file, u, r)})
  IN  /\ Pick(df.origin, rows) = Pick(u.origin, pass)
      /\ TakeRows(df, rows).data = TakeRows(u, pass).data
      /\ \A a, b \in 1..Len(rows) : a < b => df.origin[rows[a]][2] < df.origin[rows[b]][2]

\* C24: the final medical (resp. pharmacy) table is the concatenation, in
\* the order in which the mapping first names the source labels, of the
\* surviving rows of each label group; within a group the surviving rows
\* keep the order of the source table, and no row that satisfies every
\* filter condition is dropped.
C24_ConcatenationInLabelOrder ==
  \A file \in {"medical_services", "pharmacy_data"} :
    (JustGenerated(file) /\ OutputOf(file) # None) =>
      LET df == OutputOf(file)
          labels == SourceLabels(file)
      IN  /\ \A i, j \in 1..NRows(df) :
               i < j => IndexOf(labels, df.origin[i][1]) <= IndexOf(labels, df.origin[j][1])
          /\ \A i \in 1..NRows(df) : df.origin[i][1] \in Range(labels)
          /\ \A k \in 1..Len(labels) :
               (labels[k] # "" /\ ~GroupSkipped(file, labels[k]))
                 => SurvivorsKept(file, df, RowsOfLabel(df, labels[k]),
                                  Unfiltered(file, labels[k]))

\* C24 witness: a medical file whose mapping names the meds label first:
\* the two surviving rows of the meds table come first, in table order,
\* then the three of the care table.
C24_Witness ==
  /\ Written("medical_services")
  /\ SourceLabels("medical_services") = <<"meds", "care">>
  /\ medical_df.origin = <<<<"meds", 1>>, <<"meds", 6>>, <<"care", 1>>, <<"care", 6>>, <<"care", 7>>>>

\* Some target column the patient rules name is assigned by none of them.
PatientTargetAbsent ==
  \E k \in 1..Len(PatientMapping) :
    \A m \in 1..Len(PatientMapping) :
      PatientMapping[m].TargetACGColumn = PatientMapping[k].TargetACGColumn
        => ~PatientWrites(PatientMapping[m])

\* The patient generator gets as far as its rules: a Patient_Details table
\* with the merge key column, and at least one patient_data rule.
PatientAssembled ==
  /\ "Patient_Details" \in DOMAIN input_data_dict
  /\ HasCol(input_data_dict["Patient_Details"], MERGE_KEY)
  /\ Len(PatientMapping) > 0

\* C25 as stated: the patient-data generator returns no output, and the run
\* therefore fails, exactly when some mapped patient_data target column is
\* absent from the assembled result; otherwise it returns a table.
C25_PatientStructure_AsStated ==
  (MappingLoaded /\ Attempted("patient_data")) =>
    /\ (patient_df = None) <=> PatientTargetAbsent
    /\ (patient_df = None /\ Ended) => pc = "raised"

\* C25: once the patient generator has a Patient_Details table with the
\* merge key column and at least one patient_data rule, it returns no
\* output exactly when some mapped patient_data target column is absent from
\* the assembled result, and a table otherwise; without such a table or
\* without rules it returns no output either.  A run whose patient
\* generator returned no output fails.
C25_PatientStructure ==
  (MappingLoaded /\ Attempted("patient_data")) =>
    /\ PatientAssembled => ((patient_df = None) <=> PatientTargetAbsent)
    /\ ~PatientAssembled => patient_df = None
    /\ (patient_df = None /\ Ended) => pc = "raised"

\* C25 witness: the run failed at its end after the patient generator, with
\* a table and a rule for patient_id, returned nothing because the only
\* rule for another target names another input table and was skipped.
C25_Witness ==
  /\ pc = "raised" /\ error = RunLevelFailure
  /\ PatientAssembled
  /\ PatientTargetAbsent
  /\ \E k \in 1..Len(PatientMapping) : PatientMapping[k].TargetACGColumn = "patient_id"
  /\ patient_df = None
  /\ ~Written("patient_data")

\* The positions in the run's history at which a step of the kind occurs.
Occurrences(kinds) == {i \in 1..Len(events) : events[i] \in kinds}

\* C26: the steps of the run occur in the stated order: the mapping is
\* loaded once, then the patient, the medical and the pharmacy generator run
\* in that order, and only after all three have run is any output file
\* written, followed by the aggregation of success and failure.
C26_StepsInStatedOrder ==
  /\ \A i \in Occurrences({"load"}) : i = 1
  /\ \A i \in Occurrences({"patient_data"}) : \A j \in Occurrences({"medical_services"}) : i < j
  /\ \A i \in Occurrences({"medical_services"}) : \A j \in Occurrences({"pharmacy_data"}) : i < j
  /\ \A i \in Occurrences({"write", "write_failed"}) :
       \A file \in TargetFiles : \E j \in Occurrences({file}) : j < i
  /\ \A i \in Occurrences({"finish"}) : i = Len(events)

\* C27: the patient-data output never contains the same column twice, in
\* every branch of the placement of the identifier column, also when a
\* rule's target column is named like the merge key.
C27_PatientColumnsDistinct ==
  (MappingLoaded /\ Attempted("patient_data") /\ patient_df # None) =>
    \A i, j \in 1..Len(patient_df.columns) :
      patient_df.columns[i] = patient_df.columns[j] => i = j

\* The group's dx_version_1 column is assigned last by a rule with a
\* transformation, and that transformation handed back the column of missing
\* values: it could not be computed.
DxVersionNotComputed(label) ==
  LET rules == GroupRules("medical_services", label)
      u == Unfiltered("medical_services", label)
  IN  /\ \E k \in 1..Len(rules) :
           /\ rules[k].TargetACGColumn = "dx_version_1"
           /\ rules[k].TransformationFunction # ""
           /\ \A m \in (k + 1)..Len(rules) : rules[m].TargetACGColumn # "dx_version_1"
      /\ NRows(u) > 0
      /\ Col(u, "dx_version_1") = NaNSeries(u)

\* C28: in the medical-services generator a dx_version_1 column that could
\* not be computed is treated by the row filter like a column of empty
\* strings: every row of that source group is excluded.
C28_UncomputedVersionExcludesRows ==
  (MappingLoaded /\ JustGenerated("medical_services") /\ Generated("medical_services")
     /\ medical_df # None) =>
    \A i \in 1..Len(SourceLabels("medical_services")) :
      LET label == SourceLabels("medical_services")[i]
      IN  (~GroupSkipped("medical_services", label) /\ DxVersionNotComputed(label))
            => RowsOfLabel(medical_df, label) = <<>>

\* Loading the file of the item fails: the file is not there, cannot be
\* read, or is a table of another type than Patient_Details without the
\* merge key column.
FailsToLoad(item) ==
  \/ Disk(item[2]).state \in {"missing", "unreadable"}
  \/ /\ Disk(item[2]).state = "table"
     /\ item[1] # "Patient_Details"
     /\ MERGE_KEY \notin Range(Disk(item[2]).df.columns)

SomeLoadFails ==
  \E k \in 1..Len(worker.input_files_dict) : FailsToLoad(worker.input_files_dict[k])

EngineCalled == pc # "not_called"

\* C29: each execution of ProcessingWorker.run emits the finished signal
\* exactly once, on every path (load error, engine error, unexpected
\* exception, success); it reports success with the output directory only
\* when generate_acg_files returned without raising, and generate_acg_files
\* is never called if loading any input file failed.
C29_FinishedExactlyOnce ==
  /\ [](Len(worker.finished) <= 1)
  /\ <>[](Len(worker.finished) = 1)
  /\ [](\A i \in 1..Len(worker.finished) :
          /\ worker.finished[i].success =>
               (pc = "returned" /\ worker.finished[i].output_dir = worker.output_dir)
          /\ ~worker.finished[i].success => worker.finished[i].output_dir = NoneName)
  /\ [](SomeLoadFails => ~EngineCalled)

\* Reached: the three files loaded, generate_acg_files returned, and the one
\* finished signal reports success with the output directory.
C29_Witness ==
  /\ worker.pc = "done"
  /\ pc = "returned"
  /\ ~SomeLoadFails
  /\ Len(worker.input_files_dict) = 3
  /\ worker.finished = <<[success |-> TRUE, error_message |-> "", output_dir |-> "out"]>>

\* The threads of the window whose run() has not emitted finished yet.
RunningWorkers == {id \in 1..Len(window.threads) : window.threads[id].state = "running"}

\* The threads that were started and have not returned from run().
StartedWorkers == {id \in 1..Len(window.threads) : window.threads[id].state # "exited"}

\* C30: under any interleaving of the UI events (add, replace or remove a
\* file, change the output directory, click Process, worker finished), a
\* worker is started only when a file is registered for every expected input
\* type and an output directory is set, at most one worker is running at a
\* time, the Process button is never enabled while a worker is running or
\* after a successful run whose inputs and output directory are unchanged,
\* and the running worker uses the snapshot of files taken at start.
C30_WindowGuardsWorker ==
  window.open =>
    /\ \A id \in StartedWorkers :
         /\ DOMAIN window.threads[id].started_with = InputKeys
         /\ window.threads[id].output_dir # ""
    /\ Cardinality(RunningWorkers) <= 1
    /\ window.process_enabled => RunningWorkers = {}
    /\ window.process_enabled => ~window.unchanged_since_success
    /\ \A id \in StartedWorkers :
         window.threads[id].input_files_dict = window.threads[id].started_with

====
